---- MODULE Spec2Model ----
(***************************************************************************)
(* Model of the test-result aggregation and publication workflow of the    *)
(* education-center backend: the TestResult save hook (score normalizer),  *)
(* the referential validation of POST/PUT /api/test-results, the publish   *)
(* toggles of TestResult, Achievement and Graduate, the paginated list     *)
(* endpoints, the subject, group and student routers (uniqueness, soft and *)
(* hard deletes) and the catch blocks of the handlers.                     *)
(*                                                                         *)
(* Numbers are integers; JavaScript's floating-point quotient              *)
(* score / maxScore * 100 is taken exactly, Math.round as round-half-up,   *)
(* and averageScore (a quotient) is kept as the pair <<sum, count>>.       *)
(***************************************************************************)
EXTENDS Integers, Sequences, FiniteSets, TLC

VARIABLES groups, students, testResults, nextTestResultId,
          achievements, nextAchievementId, graduates, nextGraduateId,
          req, resp, toggleRun, toggling,
          subjects, groupFields, studentFields, inflight

vars == <<groups, students, testResults, nextTestResultId,
          achievements, nextAchievementId, graduates, nextGraduateId,
          req, resp, toggleRun, toggling,
          subjects, groupFields, studentFields, inflight>>

(***************************************************************************)
(* Bounds of the model.                                                    *)
(***************************************************************************)
MaxResults == 2
MaxTestResults == 1
MaxAchievements == 1
MaxGraduates == 1
MaxRecords == 3
MaxTotal == 25
MaxPage == 3
MaxLimit == 3

(***************************************************************************)
(* JavaScript values that reach the handlers in a request body.            *)
(***************************************************************************)
Undefined == [t |-> "undefined", v |-> 0]
Null == [t |-> "null", v |-> 0]
Num(n) == [t |-> "number", v |-> n]
Bool(b) == [t |-> "boolean", v |-> IF b THEN 1 ELSE 0]

IsNum(x) == x.t = "number"

\* JavaScript truthiness: undefined, null, 0 and false are falsy.
Truthy(x) ==
  CASE x.t = "number" -> x.v # 0
    [] x.t = "boolean" -> x.v = 1
    [] OTHER -> FALSE

\* An absent string or id field of the body (undefined): falsy.
NoValue == "undefined"


(***************************************************************************)
(* TestResult schema (models/TestResult.js).                               *)
(***************************************************************************)
ScoreMin == 0
MaxScoreDefault == 100
MaxScoreMin == 1
PercentageMin == 0
PercentageMax == 100
HookFallbackMaxScore == 100

\* Casting one element of `results` into a subdocument: the schema default
\* fills maxScore only when it is undefined (null stays null).
CastResult(r) ==
  [r EXCEPT !.maxScore = IF r.maxScore = Undefined THEN Num(MaxScoreDefault) ELSE r.maxScore]

CastResults(rs) == [i \in DOMAIN rs |-> CastResult(rs[i])]

ValidResultScoreOptional(r) ==
  /\ r.student # NoValue
  /\ (IsNum(r.score) => r.score.v >= ScoreMin)
  /\ (IsNum(r.maxScore) => r.maxScore.v >= MaxScoreMin)
  /\ (IsNum(r.percentage) => /\ r.percentage.v >= PercentageMin
                             /\ r.percentage.v <= PercentageMax)

\* Schema validators of one results element: student and score are required,
\* min/max validators apply to numbers only (they skip null and undefined).
ValidResult(r) ==
  /\ r.student # NoValue
  /\ IsNum(r.score)
  /\ r.score.v >= ScoreMin
  /\ (IsNum(r.maxScore) => r.maxScore.v >= MaxScoreMin)
  /\ (IsNum(r.percentage) => /\ r.percentage.v >= PercentageMin
                             /\ r.percentage.v <= PercentageMax)

ValidResults(rs) == \A i \in DOMAIN rs : ValidResult(rs[i])

\* Math.round of the quotient n / d for n >= 0, d > 0 (round half up).
RoundFloor(n, d) == n \div d

Round(n, d) == (2 * n + d) \div (2 * d)

\* Math.round((score / maxScore) * 100)
PercentOf(score, maxScore) == Round(score * 100, maxScore)

\* pre('save') lines 77-81: the percentage of an element is derived when
\* `!result.percentage && result.score !== undefined && result.maxScore`.
DerivesPercentage(r) ==
  /\ ~Truthy(r.percentage)
  /\ r.score # Undefined
  /\ Truthy(r.maxScore)

FillPercentage(r) ==
  IF DerivesPercentage(r)
    THEN [r EXCEPT !.percentage = Num(PercentOf(r.score.v, r.maxScore.v))]
    ELSE r

PercentageTermFallbackOne(r) ==
  IF Truthy(r.percentage)
    THEN r.percentage.v
    ELSE PercentOf(r.score.v, IF Truthy(r.maxScore) THEN r.maxScore.v ELSE 1)

\* pre('save') line 85: the term one element adds to totalPercentage:
\* result.percentage || Math.round((result.score / (result.maxScore || 100)) * 100)
PercentageTerm(r) ==
  IF Truthy(r.percentage)
    THEN r.percentage.v
    ELSE PercentOf(r.score.v,
                   IF Truthy(r.maxScore) THEN r.maxScore.v ELSE HookFallbackMaxScore)

RECURSIVE SumTerms(_)
SumTerms(rs) ==
  IF rs = <<>> THEN 0 ELSE PercentageTerm(Head(rs)) + SumTerms(Tail(rs))

PreSaveAccumulating(doc) ==
  IF Len(doc.results) > 0
    THEN LET filled == [i \in DOMAIN doc.results |-> FillPercentage(doc.results[i])]
         IN [doc EXCEPT !.results = filled,
                        !.averageScore = <<SumTerms(filled), Len(filled)>>,
                        !.totalStudents = doc.totalStudents + Len(filled)]
    ELSE [doc EXCEPT !.averageScore = <<0, 1>>, !.totalStudents = 0]

\* testResultSchema.pre('save'): fills the missing percentages, then sets
\* averageScore = totalPercentage / results.length and totalStudents.
PreSave(doc) ==
  IF Len(doc.results) > 0
    THEN LET filled == [i \in DOMAIN doc.results |-> FillPercentage(doc.results[i])]
         IN [doc EXCEPT !.results = filled,
                        !.averageScore = <<SumTerms(filled), Len(filled)>>,
                        !.totalStudents = Len(filled)]
    ELSE [doc EXCEPT !.averageScore = <<0, 1>>, !.totalStudents = 0]


(***************************************************************************)
(* Requests and responses.                                                 *)
(***************************************************************************)
NoBody == [none |-> TRUE]

Request(op, id, body) == [op |-> op, id |-> id, body |-> body]

\* res.status(status).json({ message }); `student` is the id interpolated
\* into the message, `id` the _id of the entity the response carries.
Response(status, message, student, id) ==
  [status |-> status, message |-> message, student |-> student, id |-> id]

Ok == Response(200, "ok", NoValue, 0)
RequiredMsg == "Group, test name, test date, and results array are required"
GroupMsg == "Group not found"
ResultMsg == "Each result must have a valid student and score (0 or higher)"
StudentMsg == "Student with ID ${result.student} not found"
NotFoundMsg == "Test result not found"

\* routes/testResults.js POST, line 96: the required-field check.
PostMissingRequired(b) ==
  \/ b.group = NoValue
  \/ b.testName = NoValue
  \/ b.testDate = NoValue
  \/ ~b.hasResults

\* POST, line 110: !result.student || result.score === undefined || result.score < 0
\* (null < 0 is false in JavaScript).
PostBadResult(r) ==
  \/ r.student = NoValue
  \/ r.score = Undefined
  \/ (IsNum(r.score) /\ r.score.v < 0)

RECURSIVE PostValidateResultsNoLookup(_, _, _)
PostValidateResultsNoLookup(rs, i, studs) ==
  IF i > Len(rs) THEN Ok
  ELSE IF PostBadResult(rs[i]) THEN Response(400, ResultMsg, NoValue, 0)
  ELSE PostValidateResultsNoLookup(rs, i + 1, studs)

\* POST, lines 109-123: the loop over results, from element i on; the first
\* failing check answers the request.
RECURSIVE PostValidateResults(_, _, _)
PostValidateResults(rs, i, studs) ==
  IF i > Len(rs) THEN Ok
  ELSE IF PostBadResult(rs[i]) THEN Response(400, ResultMsg, NoValue, 0)
  ELSE IF rs[i].student \notin studs THEN Response(400, StudentMsg, rs[i].student, 0)
  ELSE PostValidateResults(rs, i + 1, studs)

PostChecksNoGroup(b, grps, studs) ==
  IF PostMissingRequired(b) THEN Response(400, RequiredMsg, NoValue, 0)
  ELSE PostValidateResults(b.results, 1, studs)

\* POST, lines 96-123: every check that precedes the construction of the document.
PostChecks(b, grps, studs) ==
  IF PostMissingRequired(b) THEN Response(400, RequiredMsg, NoValue, 0)
  ELSE IF b.group \notin grps THEN Response(400, GroupMsg, NoValue, 0)
  ELSE PostValidateResults(b.results, 1, studs)

\* POST, lines 125-132: new TestResult({...}); isPublished: isPublished || false.
NewTestResult(b) ==
  [group |-> b.group,
   results |-> CastResults(b.results),
   averageScore |-> <<0, 1>>,
   totalStudents |-> 0,
   isPublished |-> Truthy(b.isPublished)]

\* PUT, line 156.
PutMissingRequired(b) ==
  \/ b.group = NoValue
  \/ b.testName = NoValue
  \/ b.testDate = NoValue
  \/ ~b.hasResults

PutBadResultNoNegative(r) ==
  \/ r.student = NoValue
  \/ r.score = Undefined

\* PUT, line 170.
PutBadResult(r) ==
  \/ r.student = NoValue
  \/ r.score = Undefined
  \/ (IsNum(r.score) /\ r.score.v < 0)

\* PUT, lines 169-183.
RECURSIVE PutValidateResults(_, _, _)
PutValidateResults(rs, i, studs) ==
  IF i > Len(rs) THEN Ok
  ELSE IF PutBadResult(rs[i]) THEN Response(400, ResultMsg, NoValue, 0)
  ELSE IF rs[i].student \notin studs THEN Response(400, StudentMsg, rs[i].student, 0)
  ELSE PutValidateResults(rs, i + 1, studs)

\* PUT, lines 156-183.
PutChecks(b, grps, studs) ==
  IF PutMissingRequired(b) THEN Response(400, RequiredMsg, NoValue, 0)
  ELSE IF b.group \notin grps THEN Response(400, GroupMsg, NoValue, 0)
  ELSE PutValidateResults(b.results, 1, studs)

\* PUT, lines 185-196: the $set of findByIdAndUpdate applied to the stored
\* document; averageScore and totalStudents are not in the update, and an
\* update runs no save hook.
ApplyUpdate(doc, b) ==
  [doc EXCEPT !.group = b.group,
              !.results = CastResults(b.results),
              !.isPublished = IF b.isPublished # Undefined THEN Truthy(b.isPublished) ELSE FALSE]

TogglePublishSetTrue(doc) == PreSave([doc EXCEPT !.isPublished = TRUE])

\* PATCH, lines 224-227: flip isPublished, then save() (which runs pre('save')).
TogglePublish(doc) == PreSave([doc EXCEPT !.isPublished = ~doc.isPublished])

Remove(store, id) == [i \in DOMAIN store \ {id} |-> store[i]]

Insert(store, id, doc) == [i \in DOMAIN store \cup {id} |-> IF i = id THEN doc ELSE store[i]]


(***************************************************************************)
(* Inputs of the requests.                                                 *)
(***************************************************************************)
GroupIds == {"g1", "g2"}
StudentIds == {"s1", "s2"}
TestResultIds == 1..MaxTestResults
FirstTestResult == {1}
AchievementIds == 1..MaxAchievements
GraduateIds == 1..MaxGraduates
RecordIds == 1..MaxRecords

\* The subject a group belongs to (Group.subject, set when the group is created).
SubjectIds == {"sub1", "sub2"}

SubjectOf(g) == IF g = "g1" THEN "sub1" ELSE "sub2"

Result(student, score, maxScore, percentage) ==
  [student |-> student, score |-> score, maxScore |-> maxScore, percentage |-> percentage]

\* Single results elements: a well-formed element with one field varied at
\* a time, and two more quotients (a half, and a score above maxScore).
ResultInputs ==
  {Result(st, Num(2), Num(3), Undefined) : st \in StudentIds \cup {NoValue}}
  \cup {Result("s1", sc, Num(3), Undefined) : sc \in {Undefined, Null, Num(-1), Num(0)}}
  \cup {Result("s1", Num(2), mx, Undefined) : mx \in {Undefined, Null, Num(0)}}
  \cup {Result("s1", Num(2), Num(3), pc) : pc \in {Num(0), Num(40), Num(150)}}
  \cup {Result("s1", Num(5), mx, Undefined) : mx \in {Num(8), Num(3)}}

\* Elements of the longer results lists.
ListResultInputs ==
  {Result("s1", Num(2), Num(3), Undefined),
   Result("s1", Num(80), Undefined, Num(70)),
   Result("s2", Num(2), Num(3), Undefined)}

\* Lists with an element the field check refuses, before and after an element
\* that passes it.
RefusedResultsInputs ==
  {<<Result("s1", Num(2), Num(3), Undefined), Result("s1", Num(-1), Num(3), Undefined)>>,
   <<Result("s2", Num(2), Num(3), Undefined), Result("s1", Num(-1), Num(3), Undefined)>>,
   <<Result("s1", Num(-1), Num(3), Undefined), Result("s2", Num(2), Num(3), Undefined)>>}

ResultsInputs ==
  {<<r>> : r \in ResultInputs}
  \cup UNION {[1..n -> ListResultInputs] : n \in 0..MaxResults}
  \cup RefusedResultsInputs

TestResultBody(group, testName, testDate, hasResults, results, isPublished) ==
  [group |-> group, testName |-> testName, testDate |-> testDate,
   hasResults |-> hasResults, results |-> results, isPublished |-> isPublished]

OneResult == <<Result("s1", Num(2), Num(3), Undefined)>>

\* Bodies of POST and PUT /api/test-results: every results list with the
\* other fields well formed, and each other field varied over one list.
TestResultBodies ==
  {TestResultBody("g1", "name", "date", TRUE, rs, Undefined) : rs \in ResultsInputs}
  \cup {TestResultBody(g, "name", "date", TRUE, OneResult, Undefined) : g \in {"g2", NoValue}}
  \cup {TestResultBody("g1", NoValue, "date", TRUE, OneResult, Undefined),
        TestResultBody("g1", "name", NoValue, TRUE, OneResult, Undefined),
        TestResultBody("g1", "name", "date", FALSE, <<>>, Undefined),
        TestResultBody("g2", "name", "date", TRUE, <<Result("s2", Num(-1), Num(3), Undefined)>>, Undefined)}
  \cup {TestResultBody("g1", "name", "date", TRUE, OneResult, Bool(pub)) : pub \in BOOLEAN}

(***************************************************************************)
(* State after start-up: one group and one student exist, no test result,  *)
(* achievement or graduate.                                                *)
(***************************************************************************)
\* The run of successive successful publish toggles on one record that the
\* last request ended: its length (0 when the last request was no successful
\* toggle, counted up to 2) and isPublished of the record before the run.
NoRun == [n |-> 0, original |-> FALSE]

RunAfterToggle(op, id, old) ==
  IF req.op = op /\ req.id = id /\ resp.status = 200 /\ toggleRun.n = 1
    THEN [n |-> 2, original |-> toggleRun.original]
    ELSE [n |-> 1, original |-> old]

NoRequest == Request("none", 0, NoBody)

\* The handlers of PATCH /:id/publish that may be in flight together.
Handlers == {1, 2}

\* A handler of PATCH /:id/publish between its requests.  An entry holds the
\* handler's position (pc), the id and the document findById gave it, the
\* status it answered, and two history fields: the number of saves of the
\* same record by other handlers since its findById (writesSince, counted
\* up to 2), and whether the first of them came from a handler that had read
\* the record in the same state (raced).
Idle == [pc |-> "idle", id |-> 0, doc |-> NoBody, status |-> 0, writesSince |-> 0, raced |-> FALSE]

\* A handler of the stepwise requests between its requests: its position
\* (pc), the endpoint (op), the id of req.params (id for a test result, ref
\* for a subject or a group), the body, the index of the results entry the
\* loop is at (i), the lookups the handler has made so far, each with what
\* it found, and the response it has sent.
Resting ==
  [pc |-> "idle", op |-> "none", id |-> 0, ref |-> NoValue, body |-> NoBody, i |-> 0,
   lookups |-> <<>>, resp |-> Response(0, "none", NoValue, 0)]

\* The documents behind the ids the store holds at start-up.
StartSubjects ==
  [s \in SubjectIds |-> [name |-> IF s = "sub1" THEN "Math" ELSE "Physics"]]

StartGroups(grps) == [g \in grps |-> [name |-> "A", subject |-> SubjectOf(g)]]

StartStudents(studs) == [s \in studs |-> [firstName |-> "Ann", group |-> "g1", isActive |-> TRUE]]

Init ==
  /\ groups = {"g1"}
  /\ students = {"s1"}
  /\ testResults = <<>>
  /\ nextTestResultId = 1
  /\ achievements = <<>>
  /\ nextAchievementId = 1
  /\ graduates = <<>>
  /\ nextGraduateId = 1
  /\ req = NoRequest
  /\ resp = Response(0, "none", NoValue, 0)
  /\ toggleRun = NoRun
  /\ toggling = [h \in Handlers |-> Idle]
  /\ subjects = StartSubjects
  /\ groupFields = StartGroups(groups)
  /\ studentFields = StartStudents(students)
  /\ inflight = [h \in Handlers |-> Resting]

DirectoryUnchanged == UNCHANGED <<subjects, groupFields, studentFields, inflight>>

OtherEntitiesUnchanged ==
  /\ UNCHANGED <<groups, students, achievements, nextAchievementId, graduates, nextGraduateId, toggling>>
  /\ DirectoryUnchanged

(***************************************************************************)
(* routes/testResults.js                                                   *)
(***************************************************************************)
\* POST /api/test-results, lines 92-149.  A failed check answers 400; a
\* document the schema validators reject makes save() throw (500); otherwise
\* the document goes through pre('save') and is inserted under a fresh _id.
PostTestResult(ids, bodies) ==
  \E b \in bodies :
    LET chk == PostChecks(b, groups, students)
        doc == NewTestResult(b)
    IN /\ req' = Request("POST test-results", 0, b)
       /\ IF chk.status # 200
            THEN /\ resp' = chk
                 /\ UNCHANGED <<testResults, nextTestResultId>>
            ELSE IF ~ValidResults(doc.results)
              THEN /\ resp' = Response(500, "Error creating test result", NoValue, 0)
                   /\ UNCHANGED <<testResults, nextTestResultId>>
              ELSE /\ nextTestResultId \in ids
                   /\ testResults' = Insert(testResults, nextTestResultId, PreSave(doc))
                   /\ nextTestResultId' = nextTestResultId + 1
                   /\ resp' = Response(201, "created", NoValue, nextTestResultId)
       /\ toggleRun' = NoRun
       /\ OtherEntitiesUnchanged

\* PUT /api/test-results/:id, lines 152-213.  findByIdAndUpdate with
\* runValidators validates the update (500 when it throws), answers null for
\* an unknown id (404) and otherwise applies the $set.
PutTestResult(ids, bodies) ==
  \E id \in ids, b \in bodies :
    LET chk == PutChecks(b, groups, students)
    IN /\ req' = Request("PUT test-results", id, b)
       /\ IF chk.status # 200
            THEN /\ resp' = chk
                 /\ UNCHANGED testResults
            ELSE IF ~ValidResults(CastResults(b.results))
              THEN /\ resp' = Response(500, "Error updating test result", NoValue, 0)
                   /\ UNCHANGED testResults
              ELSE IF id \notin DOMAIN testResults
                THEN /\ resp' = Response(404, NotFoundMsg, NoValue, 0)
                     /\ UNCHANGED testResults
                ELSE /\ testResults' = [testResults EXCEPT ![id] = ApplyUpdate(@, b)]
                     /\ resp' = Response(200, "updated", NoValue, id)
       /\ UNCHANGED nextTestResultId
       /\ toggleRun' = NoRun
       /\ OtherEntitiesUnchanged

\* PATCH /api/test-results/:id/publish, lines 216-242.
PatchTestResult(ids) ==
  \E id \in ids :
    /\ req' = Request("PATCH test-results", id, NoBody)
    /\ IF id \notin DOMAIN testResults
         THEN /\ resp' = Response(404, NotFoundMsg, NoValue, 0)
              /\ UNCHANGED testResults
              /\ toggleRun' = NoRun
         ELSE /\ toggleRun' = RunAfterToggle("PATCH test-results", id, testResults[id].isPublished)
              /\ testResults' = [testResults EXCEPT ![id] = TogglePublish(@)]
              /\ resp' = Response(200, "toggled", NoValue, id)
    /\ UNCHANGED nextTestResultId
    /\ OtherEntitiesUnchanged

DeleteTestResultAlwaysOk(ids) ==
  \E id \in ids :
    /\ req' = Request("DELETE test-results", id, NoBody)
    /\ testResults' = Remove(testResults, id)
    /\ resp' = Response(200, "Test result deleted successfully", NoValue, id)
    /\ UNCHANGED nextTestResultId
    /\ toggleRun' = NoRun
    /\ OtherEntitiesUnchanged

\* DELETE /api/test-results/:id, lines 245-257.
DeleteTestResult(ids) ==
  \E id \in ids :
    /\ req' = Request("DELETE test-results", id, NoBody)
    /\ IF id \notin DOMAIN testResults
         THEN /\ resp' = Response(404, NotFoundMsg, NoValue, 0)
              /\ UNCHANGED testResults
         ELSE /\ testResults' = Remove(testResults, id)
              /\ resp' = Response(200, "Test result deleted successfully", NoValue, id)
    /\ UNCHANGED nextTestResultId
    /\ toggleRun' = NoRun
    /\ OtherEntitiesUnchanged

\* save() of a document that findById returned: the update sent to the store
\* sets the paths that differ from what was read (isPublished, and whatever
\* pre('save') changed), on the document as it is stored now.
SameAverage(a, b) == a[1] * b[2] = b[1] * a[2]

SaveFlipStored(stored, read, saved) == [stored EXCEPT !.isPublished = ~stored.isPublished]

SaveModified(stored, read, saved) ==
  [stored EXCEPT
     !.isPublished = IF saved.isPublished # read.isPublished THEN saved.isPublished ELSE @,
     !.averageScore = IF SameAverage(saved.averageScore, read.averageScore) THEN @ ELSE saved.averageScore,
     !.totalStudents = IF saved.totalStudents # read.totalStudents THEN saved.totalStudents ELSE @,
     !.results = [i \in DOMAIN @ |->
                    IF i \in DOMAIN saved.results /\ saved.results[i].percentage # read.results[i].percentage
                      THEN [@[i] EXCEPT !.percentage = saved.results[i].percentage]
                      ELSE @[i]]]

\* PATCH /api/test-results/:id/publish, lines 218-222: findById and the 404
\* answer, as the first step of handler h.
PatchFind(ids, h) ==
  \E id \in ids :
    /\ toggling[h].pc # "found"
    /\ toggling' = [toggling EXCEPT ![h] =
         IF id \notin DOMAIN testResults
           THEN [Idle EXCEPT !.pc = "done", !.id = id, !.status = 404]
           ELSE [Idle EXCEPT !.pc = "found", !.id = id, !.doc = testResults[id]]]
    /\ UNCHANGED <<testResults, nextTestResultId, req, resp, toggleRun>>
    /\ UNCHANGED <<groups, students, achievements, nextAchievementId, graduates, nextGraduateId>>
    /\ DirectoryUnchanged

\* PATCH /api/test-results/:id/publish, lines 224-227: the flip of the
\* document in hand and its save(), as the second step of handler h.  save()
\* of a document that is no longer stored throws (500, line 240).
PatchSave(h) ==
  LET id == toggling[h].id
      read == toggling[h].doc
      saved == PreSave([read EXCEPT !.isPublished = ~read.isPublished])
  IN /\ toggling[h].pc = "found"
     /\ IF id \notin DOMAIN testResults
          THEN /\ toggling' = [toggling EXCEPT ![h].pc = "done", ![h].status = 500]
               /\ UNCHANGED testResults
          ELSE /\ testResults' = [testResults EXCEPT ![id] = SaveModified(@, read, saved)]
               /\ toggling' = [k \in Handlers |->
                    IF k = h THEN [toggling[h] EXCEPT !.pc = "done", !.status = 200]
                    ELSE IF toggling[k].pc = "found" /\ toggling[k].id = id
                      THEN [toggling[k] EXCEPT
                              !.raced = IF toggling[k].writesSince = 0
                                          THEN toggling[h].writesSince = 0 ELSE @,
                              !.writesSince = IF @ < 2 THEN @ + 1 ELSE @]
                      ELSE toggling[k]]
     /\ UNCHANGED <<nextTestResultId, req, resp, toggleRun>>
     /\ UNCHANGED <<groups, students, achievements, nextAchievementId, graduates, nextGraduateId>>
     /\ DirectoryUnchanged

\* testResultSchema.pre('save') applied to a document as save() hands it
\* over, whatever its results hold.
SaveHook ==
  /\ req.op = "save"
  /\ resp.status = 0
  /\ resp' = [status |-> 200, doc |-> PreSave(req.body)]
  /\ UNCHANGED <<req, testResults, nextTestResultId, toggleRun>>
  /\ OtherEntitiesUnchanged

\* A later save() of the document the hook has already been through, its
\* results untouched: pre('save') runs on what the first save left.
SaveAgain ==
  /\ req.op = "save"
  /\ resp.status = 200
  /\ "again" \notin DOMAIN resp
  /\ resp' = [status |-> 200, doc |-> resp.doc, again |-> PreSave(resp.doc)]
  /\ UNCHANGED <<req, testResults, nextTestResultId, toggleRun>>
  /\ OtherEntitiesUnchanged

TestResultsUnchanged ==
  /\ UNCHANGED <<groups, students, testResults, nextTestResultId, toggling>>
  /\ DirectoryUnchanged

(***************************************************************************)
(* The list endpoints: query parameters, paging and the pagination block.  *)
(***************************************************************************)
DefaultPage == 1
DefaultLimit == 10

\* const { page = 1, limit = 10 } = req.query; parseInt(page), parseInt(limit)
PageNumber(q) == IF q.page = Undefined THEN DefaultPage ELSE q.page.v

LimitNumber(q) == IF q.limit = Undefined THEN DefaultLimit ELSE q.limit.v

\* Math.ceil(n / d) for n >= 0, d > 0.
CeilFloor(n, d) == n \div d

Ceil(n, d) == (n + d - 1) \div d

\* The pagination block of a list response.
Pagination(total, q) ==
  [currentPage |-> PageNumber(q),
   totalPages |-> Ceil(total, LimitNumber(q)),
   totalItems |-> total,
   itemsPerPage |-> LimitNumber(q),
   hasNextPage |-> PageNumber(q) < Ceil(total, LimitNumber(q)),
   hasPrevPage |-> PageNumber(q) > 1]

\* .sort({ createdAt: -1 }): the ids of S, latest created first (ids are
\* given out in creation order).
RECURSIVE Descending(_)
Descending(S) ==
  IF S = {} THEN <<>>
  ELSE LET latest == CHOOSE x \in S : \A y \in S : y <= x
       IN <<latest>> \o Descending(S \ {latest})

PageOfFromStart(ordered, q) ==
  IF LimitNumber(q) < Len(ordered) THEN SubSeq(ordered, 1, LimitNumber(q)) ELSE ordered

\* .skip((pageNumber - 1) * limitNumber).limit(limitNumber)
PageOf(ordered, q) ==
  LET skip == (PageNumber(q) - 1) * LimitNumber(q)
      last == IF skip + LimitNumber(q) < Len(ordered) THEN skip + LimitNumber(q) ELSE Len(ordered)
  IN IF skip >= Len(ordered) THEN <<>> ELSE SubSeq(ordered, skip + 1, last)

\* The list handlers that build this block: GET /api/test-results (lines
\* 54-61), /api/achievements (90-97), /api/graduates (88-95) and
\* /api/students (81-88).
ListEndpoints ==
  {"GET test-results: pagination", "GET achievements: pagination",
   "GET graduates: pagination", "GET students: pagination"}

PageQuery(page, limit) == [page |-> page, limit |-> limit]

\* The list requests whose pagination block is computed: req.id carries the
\* count of the matching documents.
PageRequests ==
  {Request(e, total, PageQuery(page, limit)) :
     e \in ListEndpoints, total \in 0..MaxTotal,
     page \in {Undefined} \cup {Num(n) : n \in 1..MaxPage},
     limit \in {Undefined} \cup {Num(n) : n \in 1..MaxLimit}}

\* The pagination block a list handler answers to the request in hand.
Paginate ==
  /\ req.op \in ListEndpoints
  /\ resp.status = 0
  /\ resp' = [status |-> 200, pagination |-> Pagination(req.id, req.body)]
  /\ UNCHANGED <<req, testResults, nextTestResultId, toggleRun>>
  /\ OtherEntitiesUnchanged

ListResponse(data, pagination) == [status |-> 200, data |-> data, pagination |-> pagination]

\* What populate() puts in place of a reference that resolves to nothing.
NullRef == "null"

\* A test result as a response carries it: group and results.student
\* populated, the subject of the group under group.subject.
Populated(id, doc, grps, studs) ==
  [id |-> id,
   group |-> IF doc.group \in grps THEN doc.group ELSE NullRef,
   subject |-> IF doc.group \in grps THEN SubjectOf(doc.group) ELSE NullRef,
   students |-> [i \in DOMAIN doc.results |->
                  IF doc.results[i].student \in studs THEN doc.results[i].student ELSE NullRef],
   isPublished |-> doc.isPublished]

TestResultQuery(groupId, subjectId, published, page, limit) ==
  [groupId |-> groupId, subjectId |-> subjectId, published |-> published,
   page |-> page, limit |-> limit]

\* GET /api/test-results, lines 12-20: the query document.
TestResultMatches(doc, q) ==
  /\ (q.groupId # NoValue => doc.group = q.groupId)
  /\ (q.published # NoValue => doc.isPublished = (q.published = "true"))

\* GET /api/test-results, lines 26-40: the documents the query matches,
\* latest first, cut to the requested page and populated.
FetchPage(store, q, grps, studs) ==
  LET matching == Descending({id \in DOMAIN store : TestResultMatches(store[id], q)})
      fetched == PageOf(matching, q)
  IN [i \in DOMAIN fetched |-> Populated(fetched[i], store[fetched[i]], grps, studs)]

\* GET /api/test-results, line 39: countDocuments(query).
CountTestResults(store, q) ==
  Cardinality({id \in DOMAIN store : TestResultMatches(store[id], q)})

\* GET /api/test-results, lines 42-65.  With subjectId the fetched page is
\* filtered on result.group.subject._id (which throws for a group that
\* populate left null: 500) and total becomes the length of what is left.
ListAnswer(page, count, q) ==
  IF q.subjectId = NoValue
    THEN ListResponse(page, Pagination(count, q))
  ELSE IF \E i \in DOMAIN page : page[i].group = NullRef
    THEN Response(500, "Error fetching test results", NoValue, 0)
  ELSE LET OfSubject(e) == e.subject = q.subjectId
           data == SelectSeq(page, OfSubject)
       IN ListResponse(data, Pagination(Len(data), q))

\* GET /api/test-results, lines 9-66.
GetTestResults(queries) ==
  \E q \in queries :
    /\ req' = Request("GET test-results", 0, q)
    /\ \E page \in {FetchPage(testResults, q, groups, students)} :
         resp' = ListAnswer(page, CountTestResults(testResults, q), q)
    /\ UNCHANGED <<testResults, nextTestResultId>>
    /\ toggleRun' = NoRun
    /\ OtherEntitiesUnchanged

\* GET /api/test-results/:id, lines 69-89.
GetTestResult(ids) ==
  \E id \in ids :
    /\ req' = Request("GET test-results/:id", id, NoBody)
    /\ resp' = IF id \notin DOMAIN testResults
                 THEN Response(404, NotFoundMsg, NoValue, 0)
                 ELSE [status |-> 200, data |-> Populated(id, testResults[id], groups, students)]
    /\ UNCHANGED <<testResults, nextTestResultId>>
    /\ toggleRun' = NoRun
    /\ OtherEntitiesUnchanged

DeleteGroupCascading ==
  \E g \in GroupIds :
    /\ req' = Request("DELETE groups", 0, [group |-> g])
    /\ IF g \notin groups
         THEN /\ resp' = Response(404, GroupMsg, NoValue, 0)
              /\ UNCHANGED <<groups, groupFields, students, studentFields>>
         ELSE /\ groups' = groups \ {g}
              /\ groupFields' = Remove(groupFields, g)
              /\ students' = {st \in students : studentFields[st].group # g}
              /\ studentFields' = [st \in {t \in students : studentFields[t].group # g} |-> studentFields[st]]
              /\ resp' = Response(200, "Group deleted successfully", NoValue, 0)
    /\ toggleRun' = NoRun
    /\ UNCHANGED <<testResults, nextTestResultId, achievements, nextAchievementId,
                   graduates, nextGraduateId, toggling>>
    /\ UNCHANGED <<subjects, inflight>>

\* DELETE /api/groups/:id (routes/groups.js, lines 129-141): no document that
\* references the group is looked at.
DeleteGroup ==
  \E g \in GroupIds :
    /\ req' = Request("DELETE groups", 0, [group |-> g])
    /\ IF g \notin groups
         THEN /\ resp' = Response(404, GroupMsg, NoValue, 0)
              /\ UNCHANGED <<groups, groupFields>>
         ELSE /\ groups' = groups \ {g}
              /\ groupFields' = Remove(groupFields, g)
              /\ resp' = Response(200, "Group deleted successfully", NoValue, 0)
    /\ toggleRun' = NoRun
    /\ UNCHANGED <<students, testResults, nextTestResultId, achievements, nextAchievementId,
                   graduates, nextGraduateId, toggling>>
    /\ UNCHANGED <<subjects, studentFields, inflight>>

\* DELETE /api/students/:id/permanent (routes/students.js, lines 244-256).
DeleteStudent ==
  \E st \in StudentIds :
    /\ req' = Request("DELETE students", 0, [student |-> st])
    /\ IF st \notin students
         THEN /\ resp' = Response(404, "Student not found", NoValue, 0)
              /\ UNCHANGED <<students, studentFields>>
         ELSE /\ students' = students \ {st}
              /\ studentFields' = Remove(studentFields, st)
              /\ resp' = Response(200, "Student permanently deleted", NoValue, 0)
    /\ toggleRun' = NoRun
    /\ UNCHANGED <<groups, testResults, nextTestResultId, achievements, nextAchievementId,
                   graduates, nextGraduateId, toggling>>
    /\ UNCHANGED <<subjects, groupFields, inflight>>

\* DELETE /api/subjects/:id (routes/groups.js, lines 291-303): no group of
\* the subject is looked at.
DeleteSubject ==
  \E s \in SubjectIds :
    /\ req' = Request("DELETE subjects", 0, [subject |-> s])
    /\ IF s \notin DOMAIN subjects
         THEN /\ resp' = Response(404, "Fan topilmadi", NoValue, 0)
              /\ UNCHANGED subjects
         ELSE /\ subjects' = Remove(subjects, s)
              /\ resp' = Response(200, "Fan muvaffaqiyatli o'chirildi", NoValue, 0)
    /\ toggleRun' = NoRun
    /\ UNCHANGED <<groups, students, testResults, nextTestResultId, achievements, nextAchievementId,
                   graduates, nextGraduateId, toggling>>
    /\ UNCHANGED <<groupFields, studentFields, inflight>>

(***************************************************************************)
(* routes/achievements.js                                                  *)
(***************************************************************************)
\* A multipart body: `required` says that studentName, age, title and level
\* are all present, `valid` that the schema validators accept them, and
\* isPublished is the form field ("true", "false") or absent.
AchievementBody(required, valid, isPublished) ==
  [required |-> required, valid |-> valid, isPublished |-> isPublished]

AchievementBodies ==
  {AchievementBody(TRUE, TRUE, pub) : pub \in {NoValue, "true", "false"}}
  \cup {AchievementBody(FALSE, TRUE, NoValue), AchievementBody(TRUE, FALSE, NoValue)}

\* POST /api/achievements, lines 129-168: isPublished is always true.
PostAchievement ==
  \E b \in AchievementBodies :
    /\ req' = Request("POST achievements", 0, b)
    /\ IF ~b.required
         THEN /\ resp' = Response(400, "Student name, age, title, and level are required", NoValue, 0)
              /\ UNCHANGED <<achievements, nextAchievementId>>
         ELSE IF ~b.valid
           THEN /\ resp' = Response(500, "Error creating achievement", NoValue, 0)
                /\ UNCHANGED <<achievements, nextAchievementId>>
           ELSE /\ nextAchievementId <= MaxAchievements
                /\ achievements' = Insert(achievements, nextAchievementId, [isPublished |-> TRUE])
                /\ nextAchievementId' = nextAchievementId + 1
                /\ resp' = Response(201, "created", NoValue, nextAchievementId)
    /\ UNCHANGED <<graduates, nextGraduateId>>
    /\ toggleRun' = NoRun
    /\ TestResultsUnchanged

\* PUT /api/achievements/:id, lines 171-216:
\* isPublished: isPublished !== undefined ? isPublished === 'true' : true
PutAchievement ==
  \E id \in AchievementIds, b \in AchievementBodies :
    /\ req' = Request("PUT achievements", id, b)
    /\ IF ~b.required
         THEN /\ resp' = Response(400, "Student name, age, title, and level are required", NoValue, 0)
              /\ UNCHANGED achievements
         ELSE IF ~b.valid
           THEN /\ resp' = Response(500, "Error updating achievement", NoValue, 0)
                /\ UNCHANGED achievements
           ELSE IF id \notin DOMAIN achievements
             THEN /\ resp' = Response(404, "Achievement not found", NoValue, 0)
                  /\ UNCHANGED achievements
             ELSE /\ achievements' = [achievements EXCEPT ![id].isPublished =
                                        IF b.isPublished # NoValue THEN b.isPublished = "true" ELSE TRUE]
                  /\ resp' = Response(200, "updated", NoValue, id)
    /\ UNCHANGED <<nextAchievementId, graduates, nextGraduateId>>
    /\ toggleRun' = NoRun
    /\ TestResultsUnchanged

\* PATCH /api/achievements/:id/publish, lines 219-236.
PatchAchievement ==
  \E id \in AchievementIds :
    /\ req' = Request("PATCH achievements", id, NoBody)
    /\ IF id \notin DOMAIN achievements
         THEN /\ resp' = Response(404, "Achievement not found", NoValue, 0)
              /\ UNCHANGED achievements
              /\ toggleRun' = NoRun
         ELSE /\ toggleRun' = RunAfterToggle("PATCH achievements", id, achievements[id].isPublished)
              /\ achievements' = [achievements EXCEPT ![id].isPublished = ~achievements[id].isPublished]
              /\ resp' = Response(200, "toggled", NoValue, id)
    /\ UNCHANGED <<nextAchievementId, graduates, nextGraduateId>>
    /\ TestResultsUnchanged

\* DELETE /api/achievements/:id, lines 239-259.
DeleteAchievement ==
  \E id \in AchievementIds :
    /\ req' = Request("DELETE achievements", id, NoBody)
    /\ IF id \notin DOMAIN achievements
         THEN /\ resp' = Response(404, "Achievement not found", NoValue, 0)
              /\ UNCHANGED achievements
         ELSE /\ achievements' = Remove(achievements, id)
              /\ resp' = Response(200, "Achievement deleted successfully", NoValue, id)
    /\ UNCHANGED <<nextAchievementId, graduates, nextGraduateId>>
    /\ toggleRun' = NoRun
    /\ TestResultsUnchanged

(***************************************************************************)
(* routes/graduates.js                                                     *)
(***************************************************************************)
\* A multipart body: `required` says that the six required fields are
\* present, `valid` that the schema validators accept the values.
\* Strings that are searched are sequences of characters.
FieldIT == <<"I", "T">>
FieldLaw == <<"L", "a", "w">>

GraduateListBody(admissionType, field, isPublished) ==
  [required |-> TRUE, valid |-> TRUE, previousGroup |-> NoValue,
   isPublished |-> isPublished, admissionType |-> admissionType, field |-> field]

GraduateBody(required, valid, previousGroup, isPublished) ==
  [required |-> required, valid |-> valid, previousGroup |-> previousGroup,
   isPublished |-> isPublished, admissionType |-> "grant", field |-> FieldIT]

\* new Graduate({...}) and updateData, lines 160-173 and 222-235.
GraduateDoc(b) ==
  [isPublished |-> IF b.isPublished # NoValue THEN b.isPublished = "true" ELSE TRUE,
   admissionType |-> b.admissionType,
   field |-> b.field,
   previousGroup |-> b.previousGroup]

GraduateBodies ==
  {GraduateBody(TRUE, TRUE, "g1", pub) : pub \in {NoValue, "true", "false"}}
  \cup {GraduateBody(FALSE, TRUE, "g1", NoValue), GraduateBody(TRUE, FALSE, NoValue, NoValue),
        GraduateBody(TRUE, TRUE, "g2", "false")}

\* POST and PUT, lines 141-153 and 208-220: the checks before the write.
GraduateChecks(b, grps) ==
  IF ~b.required
    THEN Response(400, "First name, last name, admission type, field, university, and admission year are required", NoValue, 0)
  ELSE IF b.previousGroup # NoValue /\ b.previousGroup \notin grps
    THEN Response(400, GroupMsg, NoValue, 0)
  ELSE Ok

GraduatePublishedDefaultDraft(b) == IF b.isPublished # NoValue THEN b.isPublished = "true" ELSE FALSE

\* Lines 172 and 233: isPublished !== undefined ? isPublished === 'true' : true
GraduatePublished(b) == IF b.isPublished # NoValue THEN b.isPublished = "true" ELSE TRUE

\* POST /api/graduates, lines 125-189.
PostGraduate(ids, bodies) ==
  \E b \in bodies :
    LET chk == GraduateChecks(b, groups)
    IN /\ req' = Request("POST graduates", 0, b)
       /\ IF chk.status # 200
            THEN /\ resp' = chk
                 /\ UNCHANGED <<graduates, nextGraduateId>>
            ELSE IF ~b.valid
              THEN /\ resp' = Response(500, "Error creating graduate", NoValue, 0)
                   /\ UNCHANGED <<graduates, nextGraduateId>>
              ELSE /\ nextGraduateId \in ids
                   /\ graduates' = Insert(graduates, nextGraduateId,
                                          [GraduateDoc(b) EXCEPT !.isPublished = GraduatePublished(b)])
                   /\ nextGraduateId' = nextGraduateId + 1
                   /\ resp' = Response(201, "created", NoValue, nextGraduateId)
       /\ UNCHANGED <<achievements, nextAchievementId>>
       /\ toggleRun' = NoRun
       /\ TestResultsUnchanged

\* PUT /api/graduates/:id, lines 192-261.
PutGraduate ==
  \E id \in GraduateIds, b \in GraduateBodies :
    LET chk == GraduateChecks(b, groups)
    IN /\ req' = Request("PUT graduates", id, b)
       /\ IF chk.status # 200
            THEN /\ resp' = chk
                 /\ UNCHANGED graduates
            ELSE IF ~b.valid
              THEN /\ resp' = Response(500, "Error updating graduate", NoValue, 0)
                   /\ UNCHANGED graduates
              ELSE IF id \notin DOMAIN graduates
                THEN /\ resp' = Response(404, "Graduate not found", NoValue, 0)
                     /\ UNCHANGED graduates
                ELSE /\ graduates' = [graduates EXCEPT ![id] =
                                          [GraduateDoc(b) EXCEPT !.isPublished = GraduatePublished(b)]]
                     /\ resp' = Response(200, "updated", NoValue, id)
       /\ UNCHANGED <<nextGraduateId, achievements, nextAchievementId>>
       /\ toggleRun' = NoRun
       /\ TestResultsUnchanged

\* PATCH /api/graduates/:id/publish, lines 264-289.
PatchGraduate ==
  \E id \in GraduateIds :
    /\ req' = Request("PATCH graduates", id, NoBody)
    /\ IF id \notin DOMAIN graduates
         THEN /\ resp' = Response(404, "Graduate not found", NoValue, 0)
              /\ UNCHANGED graduates
              /\ toggleRun' = NoRun
         ELSE /\ toggleRun' = RunAfterToggle("PATCH graduates", id, graduates[id].isPublished)
              /\ graduates' = [graduates EXCEPT ![id].isPublished = ~graduates[id].isPublished]
              /\ resp' = Response(200, "toggled", NoValue, id)
    /\ UNCHANGED <<nextGraduateId, achievements, nextAchievementId>>
    /\ TestResultsUnchanged

\* DELETE /api/graduates/:id, lines 292-312.
DeleteGraduate ==
  \E id \in GraduateIds :
    /\ req' = Request("DELETE graduates", id, NoBody)
    /\ IF id \notin DOMAIN graduates
         THEN /\ resp' = Response(404, "Graduate not found", NoValue, 0)
              /\ UNCHANGED graduates
         ELSE /\ graduates' = Remove(graduates, id)
              /\ resp' = Response(200, "Graduate deleted successfully", NoValue, id)
    /\ UNCHANGED <<nextGraduateId, achievements, nextAchievementId>>
    /\ toggleRun' = NoRun
    /\ TestResultsUnchanged

\* String.prototype.toLowerCase on the characters in use.
LowerCase(c) ==
  CASE c = "I" -> "i"
    [] c = "T" -> "t"
    [] c = "L" -> "l"
    [] OTHER -> c

\* new RegExp(field, 'i') matched against a stored field: the pattern (a
\* plain word) occurs in the text, letter case ignored.
FieldMatches(text, pattern) ==
  \E k \in 0..(Len(text) - Len(pattern)) :
    \A j \in 1..Len(pattern) : LowerCase(text[k + j]) = LowerCase(pattern[j])

GraduateQuery(published, admissionType, field, page, limit) ==
  [published |-> published, admissionType |-> admissionType, field |-> field,
   page |-> page, limit |-> limit]

\* GET /api/graduates, lines 53-65: the query document.
GraduateMatches(doc, q) ==
  /\ (q.published # NoValue => doc.isPublished = (q.published = "true"))
  /\ (q.admissionType \in {"grant", "contract"} => doc.admissionType = q.admissionType)
  /\ (q.field # <<>> => FieldMatches(doc.field, q.field))

\* GET /api/graduates, lines 50-100.
GetGraduates(queries) ==
  \E q \in queries :
    LET matching == Descending({id \in DOMAIN graduates : GraduateMatches(graduates[id], q)})
    IN /\ req' = Request("GET graduates", 0, q)
       /\ resp' = ListResponse(PageOf(matching, q), Pagination(Len(matching), q))
       /\ UNCHANGED <<graduates, nextGraduateId, achievements, nextAchievementId>>
       /\ toggleRun' = NoRun
       /\ TestResultsUnchanged

(***************************************************************************)
(* POST and PUT /api/test-results as the steps of one handler: every await *)
(* of the handler is a step, and other requests run between the steps.     *)
(***************************************************************************)
\* The results element the loop of lines 109 and 169 visits at its i-th turn
\* (for ... of walks the array from its first element).
EntryFromEnd(rs, i) == rs[Len(rs) + 1 - i]

EntryAt(rs, i) == rs[i]

\* The field check of the loop, line 110 (POST) and line 170 (PUT).
BadResultOf(op, r) == IF op = "POST test-results" THEN PostBadResult(r) ELSE PutBadResult(r)

Lookup(kind, id, found) == [kind |-> kind, id |-> id, found |-> found]

Answer(x, response) == [x EXCEPT !.pc = "done", !.resp = response]

\* Lines 94-100 and 154-160: the handler takes the request and makes the
\* required-field check.
SubmitStart(h, ids, bodies) ==
  \E op \in {"POST test-results", "PUT test-results"}, id \in ids, b \in bodies :
    /\ inflight[h].pc \in {"idle", "done"}
    /\ inflight' = [inflight EXCEPT ![h] =
         LET x == [Resting EXCEPT !.op = op, !.body = b,
                                  !.id = IF op = "PUT test-results" THEN id ELSE 0]
         IN IF (IF op = "POST test-results" THEN PostMissingRequired(b) ELSE PutMissingRequired(b))
              THEN Answer(x, Response(400, RequiredMsg, NoValue, 0))
              ELSE [x EXCEPT !.pc = "group"]]
    /\ UNCHANGED <<groups, students, testResults, nextTestResultId, achievements, nextAchievementId,
                   graduates, nextGraduateId, req, resp, toggleRun, toggling>>
    /\ UNCHANGED <<subjects, groupFields, studentFields>>

\* Lines 103-106 and 163-166: await Group.findById(group).
SubmitGroup(h) ==
  LET x == inflight[h]
      found == x.body.group \in groups
      looked == [x EXCEPT !.lookups = Append(@, Lookup("Group", x.body.group, found))]
  IN /\ x.pc = "group"
     /\ inflight' = [inflight EXCEPT ![h] =
          IF ~found THEN Answer(looked, Response(400, GroupMsg, NoValue, 0))
          ELSE IF Len(x.body.results) = 0 THEN [looked EXCEPT !.pc = "write"]
          ELSE [looked EXCEPT !.pc = "entry", !.i = 1]]
     /\ UNCHANGED <<groups, students, testResults, nextTestResultId, achievements, nextAchievementId,
                    graduates, nextGraduateId, req, resp, toggleRun, toggling>>
     /\ UNCHANGED <<subjects, groupFields, studentFields>>

\* Lines 109-123 and 169-183, one turn of the loop: the field check of the
\* element, then await Student.findById(result.student).
SubmitEntry(h) ==
  LET x == inflight[h]
      r == EntryAt(x.body.results, x.i)
      found == r.student \in students
      looked == [x EXCEPT !.lookups = Append(@, Lookup("Student", r.student, found))]
  IN /\ x.pc = "entry"
     /\ inflight' = [inflight EXCEPT ![h] =
          IF BadResultOf(x.op, r) THEN Answer(x, Response(400, ResultMsg, NoValue, 0))
          ELSE IF ~found THEN Answer(looked, Response(400, StudentMsg, r.student, 0))
          ELSE IF x.i = Len(x.body.results) THEN [looked EXCEPT !.pc = "write"]
          ELSE [looked EXCEPT !.i = x.i + 1]]
     /\ UNCHANGED <<groups, students, testResults, nextTestResultId, achievements, nextAchievementId,
                    graduates, nextGraduateId, req, resp, toggleRun, toggling>>
     /\ UNCHANGED <<subjects, groupFields, studentFields>>

\* Lines 125-134 (new TestResult and save()) and lines 185-202
\* (findByIdAndUpdate): the write that follows the lookups.
SubmitWrite(h, ids) ==
  LET x == inflight[h]
      b == x.body
  IN /\ x.pc = "write"
     /\ IF x.op = "POST test-results"
          THEN IF ~ValidResults(NewTestResult(b).results)
                 THEN /\ inflight' = [inflight EXCEPT ![h] =
                           Answer(x, Response(500, "Error creating test result", NoValue, 0))]
                      /\ UNCHANGED <<testResults, nextTestResultId>>
                 ELSE /\ nextTestResultId \in ids
                      /\ testResults' = Insert(testResults, nextTestResultId, PreSave(NewTestResult(b)))
                      /\ nextTestResultId' = nextTestResultId + 1
                      /\ inflight' = [inflight EXCEPT ![h] =
                           Answer(x, Response(201, "created", NoValue, nextTestResultId))]
          ELSE /\ UNCHANGED nextTestResultId
               /\ IF ~ValidResults(CastResults(b.results))
                    THEN /\ inflight' = [inflight EXCEPT ![h] =
                              Answer(x, Response(500, "Error updating test result", NoValue, 0))]
                         /\ UNCHANGED testResults
                    ELSE IF x.id \notin DOMAIN testResults
                      THEN /\ inflight' = [inflight EXCEPT ![h] =
                                Answer(x, Response(404, NotFoundMsg, NoValue, 0))]
                           /\ UNCHANGED testResults
                      ELSE /\ testResults' = [testResults EXCEPT ![x.id] = ApplyUpdate(@, b)]
                           /\ inflight' = [inflight EXCEPT ![h] =
                                Answer(x, Response(200, "updated", NoValue, x.id))]
     /\ UNCHANGED <<groups, students, achievements, nextAchievementId,
                    graduates, nextGraduateId, req, resp, toggleRun, toggling>>
     /\ UNCHANGED <<subjects, groupFields, studentFields>>

(***************************************************************************)
(* routes/subjects.js, the handlers that write, as the steps of a handler. *)
(***************************************************************************)
\* String.prototype.trim on the names the requests carry.
TrimName(n) ==
  IF n = " Chemistry " THEN "Chemistry"
  ELSE IF n = " B " THEN "B"
  ELSE n

\* The _id a new document gets: one the store has never held.
NewSubjectIds == {"sub3", "sub4"}

FreshId(pool, used) == CHOOSE id \in pool : id \notin used

SubjectBody(name, teacherName) == [name |-> name, teacherName |-> teacherName]

\* Subject.findOne({ name: name.trim(), _id: { $ne: id } }), lines 213 and
\* 261-264 (POST has no _id condition: ref is NoValue there).
SubjectNameTaken(store, name, ref) ==
  \E s \in DOMAIN store : s # ref /\ store[s].name = TrimName(name)

\* POST /api/subjects, lines 204-217, and PUT /api/subjects/:id, lines
\* 254-267: the required-field check and the look for another subject of
\* the same name.
SubjectFind(h, refs, bodies) ==
  \E op \in {"POST subjects", "PUT subjects"}, ref \in refs, b \in bodies :
    /\ inflight[h].pc \in {"idle", "done"}
    /\ inflight' = [inflight EXCEPT ![h] =
         LET x == [Resting EXCEPT !.op = op, !.body = b,
                                  !.ref = IF op = "PUT subjects" THEN ref ELSE NoValue]
         IN IF b.name = NoValue \/ b.teacherName = NoValue
              THEN Answer(x, Response(400, "Fan nomi va o'qituvchi nomi majburiy", NoValue, 0))
              ELSE IF SubjectNameTaken(subjects, b.name, x.ref)
                THEN Answer(x, Response(400, "Bu nomli fan allaqachon mavjud", NoValue, 0))
                ELSE [x EXCEPT !.pc = "write"]]
    /\ UNCHANGED <<groups, students, testResults, nextTestResultId, achievements, nextAchievementId,
                   graduates, nextGraduateId, req, resp, toggleRun, toggling>>
    /\ UNCHANGED <<subjects, groupFields, studentFields>>

\* POST, lines 220-226 (new Subject and save()), and PUT, lines 269-282
\* (findByIdAndUpdate, 404 for an unknown id).  The schema has no unique
\* index: the store takes whatever name it is given.
SubjectWrite(h) ==
  LET x == inflight[h]
      doc == [name |-> TrimName(x.body.name)]
  IN /\ x.pc = "write"
     /\ IF x.op = "POST subjects"
          THEN /\ NewSubjectIds \ DOMAIN subjects # {}
               /\ subjects' = Insert(subjects, FreshId(NewSubjectIds, DOMAIN subjects), doc)
               /\ inflight' = [inflight EXCEPT ![h] = Answer(x, Response(201, "created", NoValue, 0))]
          ELSE IF x.ref \notin DOMAIN subjects
            THEN /\ inflight' = [inflight EXCEPT ![h] = Answer(x, Response(404, "Fan topilmadi", NoValue, 0))]
                 /\ UNCHANGED subjects
            ELSE /\ subjects' = [subjects EXCEPT ![x.ref] = doc]
                 /\ inflight' = [inflight EXCEPT ![h] = Answer(x, Response(200, "updated", NoValue, 0))]
     /\ UNCHANGED <<groups, students, testResults, nextTestResultId, achievements, nextAchievementId,
                    graduates, nextGraduateId, req, resp, toggleRun, toggling>>
     /\ UNCHANGED <<groupFields, studentFields>>

(***************************************************************************)
(* routes/groups.js, the handlers that write, as the steps of a handler.   *)
(***************************************************************************)
NewGroupIds == {"g3"}

GroupBody(name, subject) == [name |-> name, subject |-> subject]

\* Group.findOne({ name: name.trim(), subject, _id: { $ne: id } }), lines 59
\* and 97-101 (POST has no _id condition: ref is NoValue there).
GroupPairTaken(store, b, ref) ==
  \E g \in DOMAIN store :
    g # ref /\ store[g].name = TrimName(b.name) /\ store[g].subject = b.subject

NoUniqueIndex(store, ref, doc) == FALSE

\* models/Group.js, line 38: the unique index on { name, subject }.  The
\* store refuses a write that would give two documents the same pair.
UniqueIndexRejects(store, ref, doc) ==
  \E g \in DOMAIN store :
    g # ref /\ store[g].name = doc.name /\ store[g].subject = doc.subject

\* POST /api/groups, lines 46-56, and PUT /api/groups/:id, lines 84-94: the
\* required-field check and await Subject.findById(subject).
GroupSubject(h, refs, bodies) ==
  \E op \in {"POST groups", "PUT groups"}, ref \in refs, b \in bodies :
    /\ inflight[h].pc \in {"idle", "done"}
    /\ inflight' = [inflight EXCEPT ![h] =
         LET x == [Resting EXCEPT !.op = op, !.body = b,
                                  !.ref = IF op = "PUT groups" THEN ref ELSE NoValue]
         IN IF b.name = NoValue \/ b.subject = NoValue
              THEN Answer(x, Response(400, "Name and subject are required", NoValue, 0))
              ELSE IF b.subject \notin DOMAIN subjects
                THEN Answer(x, Response(400, "Subject not found", NoValue, 0))
                ELSE [x EXCEPT !.pc = "find"]]
    /\ UNCHANGED <<groups, students, testResults, nextTestResultId, achievements, nextAchievementId,
                   graduates, nextGraduateId, req, resp, toggleRun, toggling>>
    /\ UNCHANGED <<subjects, groupFields, studentFields>>

\* Lines 59-62 and 97-104: await Group.findOne(...) and the 400 answer.
GroupFind(h) ==
  LET x == inflight[h]
  IN /\ x.pc = "find"
     /\ inflight' = [inflight EXCEPT ![h] =
          IF GroupPairTaken(groupFields, x.body, x.ref)
            THEN Answer(x, Response(400, "Group with this name already exists for this subject", NoValue, 0))
            ELSE [x EXCEPT !.pc = "write"]]
     /\ UNCHANGED <<groups, students, testResults, nextTestResultId, achievements, nextAchievementId,
                    graduates, nextGraduateId, req, resp, toggleRun, toggling>>
     /\ UNCHANGED <<subjects, groupFields, studentFields>>

\* Lines 64-71 (new Group and save()) and lines 106-120 (findByIdAndUpdate,
\* 404 for an unknown id).  A write the unique index refuses throws, and the
\* catch of lines 76 and 123 answers 500.
GroupWrite(h) ==
  LET x == inflight[h]
      doc == [name |-> TrimName(x.body.name), subject |-> x.body.subject]
  IN /\ x.pc = "write"
     /\ IF x.op = "POST groups"
          THEN IF UniqueIndexRejects(groupFields, NoValue, doc)
                 THEN /\ inflight' = [inflight EXCEPT ![h] =
                           Answer(x, Response(500, "Error creating group", NoValue, 0))]
                      /\ UNCHANGED <<groups, groupFields>>
                 ELSE /\ NewGroupIds \ groups # {}
                      /\ groups' = groups \cup {FreshId(NewGroupIds, groups)}
                      /\ groupFields' = Insert(groupFields, FreshId(NewGroupIds, groups), doc)
                      /\ inflight' = [inflight EXCEPT ![h] = Answer(x, Response(201, "created", NoValue, 0))]
          ELSE IF x.ref \notin groups
            THEN /\ inflight' = [inflight EXCEPT ![h] = Answer(x, Response(404, GroupMsg, NoValue, 0))]
                 /\ UNCHANGED <<groups, groupFields>>
            ELSE IF UniqueIndexRejects(groupFields, x.ref, doc)
              THEN /\ inflight' = [inflight EXCEPT ![h] =
                        Answer(x, Response(500, "Error updating group", NoValue, 0))]
                   /\ UNCHANGED <<groups, groupFields>>
              ELSE /\ groupFields' = [groupFields EXCEPT ![x.ref] = doc]
                   /\ inflight' = [inflight EXCEPT ![h] = Answer(x, Response(200, "updated", NoValue, 0))]
                   /\ UNCHANGED groups
     /\ UNCHANGED <<students, testResults, nextTestResultId, achievements, nextAchievementId,
                    graduates, nextGraduateId, req, resp, toggleRun, toggling>>
     /\ UNCHANGED <<subjects, studentFields>>

(***************************************************************************)
(* routes/students.js                                                      *)
(***************************************************************************)
StudentMissing == "Student not found"

StudentBody(firstName, group, isActive) ==
  [firstName |-> firstName, group |-> group, isActive |-> isActive]

StudentRequest(op, st, body) == Request(op, 0, [student |-> st, body |-> body])

\* PUT /api/students/:id, line 193: isActive !== undefined ? isActive : true
\* (the Boolean path casts the form value).
UpdatedActive(b) == IF b.isActive # NoValue THEN b.isActive = "true" ELSE TRUE

\* PUT /api/students/:id, lines 168-222.
PutStudent(ids, bodies) ==
  \E st \in ids, b \in bodies :
    /\ req' = StudentRequest("PUT students", st, b)
    /\ IF b.firstName = NoValue \/ b.group = NoValue
         THEN /\ resp' = Response(400, "First name, last name, school, grade, and group are required", NoValue, 0)
              /\ UNCHANGED studentFields
         ELSE IF b.group \notin groups
           THEN /\ resp' = Response(400, GroupMsg, NoValue, 0)
                /\ UNCHANGED studentFields
           ELSE IF st \notin students
             THEN /\ resp' = Response(404, StudentMissing, NoValue, 0)
                  /\ UNCHANGED studentFields
             ELSE /\ studentFields' = [studentFields EXCEPT ![st] =
                       [firstName |-> b.firstName, group |-> b.group, isActive |-> UpdatedActive(b)]]
                  /\ resp' = Response(200, "updated", NoValue, 0)
    /\ toggleRun' = NoRun
    /\ UNCHANGED <<groups, students, testResults, nextTestResultId, achievements, nextAchievementId,
                   graduates, nextGraduateId, toggling>>
    /\ UNCHANGED <<subjects, groupFields, inflight>>

\* DELETE /api/students/:id, lines 225-241: findByIdAndUpdate(id,
\* { isActive: false, updatedAt }).
SoftDeleteStudent(ids) ==
  \E st \in ids :
    /\ req' = StudentRequest("DELETE students/:id", st, NoBody)
    /\ IF st \notin students
         THEN /\ resp' = Response(404, StudentMissing, NoValue, 0)
              /\ UNCHANGED studentFields
         ELSE /\ studentFields' = [studentFields EXCEPT ![st].isActive = FALSE]
              /\ resp' = Response(200, "Student deactivated successfully", NoValue, 0)
    /\ toggleRun' = NoRun
    /\ UNCHANGED <<groups, students, testResults, nextTestResultId, achievements, nextAchievementId,
                   graduates, nextGraduateId, toggling>>
    /\ UNCHANGED <<subjects, groupFields, inflight>>

\* GET /api/students/:id, lines 96-115: findById, whatever isActive holds.
GetStudent(ids) ==
  \E st \in ids :
    /\ req' = StudentRequest("GET students/:id", st, NoBody)
    /\ resp' = IF st \notin students
                 THEN Response(404, StudentMissing, NoValue, 0)
                 ELSE [status |-> 200, data |-> studentFields[st]]
    /\ toggleRun' = NoRun
    /\ UNCHANGED <<groups, students, testResults, nextTestResultId, achievements, nextAchievementId,
                   graduates, nextGraduateId, toggling>>
    /\ DirectoryUnchanged

StudentQuery(groupId, page, limit) == [groupId |-> groupId, page |-> page, limit |-> limit]

StudentListedAnyState(doc, q) == q.groupId # NoValue => doc.group = q.groupId

\* GET /api/students, lines 54-58: query = { isActive: true }, and
\* query.group = groupId when groupId is given.
StudentListed(doc, q) ==
  /\ doc.isActive
  /\ q.groupId # NoValue => doc.group = q.groupId

\* .sort({ createdAt: -1 }) over the students of the model: s2 was created
\* after s1.
StudentsLatestFirst == <<"s2", "s1">>

RECURSIVE Listed(_, _, _, _)
Listed(order, i, store, q) ==
  IF i > Len(order) THEN <<>>
  ELSE (IF order[i] \in DOMAIN store /\ StudentListed(store[order[i]], q) THEN <<order[i]>> ELSE <<>>)
       \o Listed(order, i + 1, store, q)

\* GET /api/students, lines 51-93.
GetStudents(queries) ==
  \E q \in queries :
    \E matching \in {Listed(StudentsLatestFirst, 1, studentFields, q)} :
      /\ req' = StudentRequest("GET students", NoValue, q)
      /\ resp' = ListResponse(PageOf(matching, q), Pagination(Len(matching), q))
      /\ toggleRun' = NoRun
      /\ UNCHANGED <<groups, students, testResults, nextTestResultId, achievements, nextAchievementId,
                     graduates, nextGraduateId, toggling>>
      /\ DirectoryUnchanged

(***************************************************************************)
(* The catch blocks of the test-result, achievement and graduate routers.  *)
(***************************************************************************)
\* The handlers of the three routers, each with one try/catch around its
\* store calls.
RouterNames == {"test-results", "achievements", "graduates"}

HandlerNames == {"GET /", "GET /:id", "POST /", "PUT /:id", "PATCH /:id/publish", "DELETE /:id"}

Endpoint(router, handler) == [router |-> router, handler |-> handler]

\* error.name of what a store call can throw: the server could not be
\* reached or the operation timed out (the first three), or the store
\* answered with an error.
ErrorNames ==
  {"MongoTimeoutError", "MongoServerSelectionError", "MongoNetworkError",
   "ValidationError", "CastError", "MongoServerError"}

\* The status the catch block of an endpoint answers.  Only GET
\* /api/achievements looks at the error (achievements.js, lines 102-107);
\* every other catch of the three routers answers 500.
CatchStatus(endpoint, name) ==
  IF /\ endpoint = Endpoint("achievements", "GET /")
     /\ name \in {"MongoTimeoutError", "MongoServerSelectionError"}
    THEN 503
    ELSE 500

\* The requests during which a store call throws: req.body carries the
\* endpoint and the error.
FailingRequests ==
  {Request("store call throws", 0, [endpoint |-> Endpoint(r, h), error |-> e]) :
     r \in RouterNames, h \in HandlerNames, e \in ErrorNames}

\* The catch block of the endpoint answers the request in hand.
CatchFailure ==
  /\ req.op = "store call throws"
  /\ resp.status = 0
  /\ resp' = Response(CatchStatus(req.body.endpoint, req.body.error), "error", NoValue, 0)
  /\ UNCHANGED <<req, testResults, nextTestResultId, toggleRun>>
  /\ OtherEntitiesUnchanged

(***************************************************************************)
(* Specifications.                                                         *)
(***************************************************************************)
\* The test-result endpoints over every body of TestResultBodies, following
\* the first test result created: each handler reads and writes only the
\* document req.params.id names.
Next ==
  \/ PostTestResult(FirstTestResult, TestResultBodies)
  \/ PutTestResult(FirstTestResult, TestResultBodies)
  \/ PatchTestResult(FirstTestResult)
  \/ DeleteTestResult(FirstTestResult)

Spec == Init /\ [][Next]_vars

\* Bodies for the publication workflow: well-formed, isPublished varied.
PublishBodies ==
  {TestResultBody("g1", "name", "date", TRUE, OneResult, pub) :
     pub \in {Undefined, Bool(TRUE), Bool(FALSE)}}

\* The publication workflow of the three publishable entities.
NextPublish ==
  \/ PostTestResult(TestResultIds, PublishBodies)
  \/ PutTestResult(TestResultIds, PublishBodies)
  \/ PatchTestResult(TestResultIds)
  \/ DeleteTestResult(TestResultIds)
  \/ PostAchievement
  \/ PutAchievement
  \/ PatchAchievement
  \/ DeleteAchievement
  \/ PostGraduate(GraduateIds, GraduateBodies)
  \/ PutGraduate
  \/ PatchGraduate
  \/ DeleteGraduate

SpecPublish == Init /\ [][NextPublish]_vars

\* Two publish toggles in flight together, each in its two steps, next to
\* creates and deletes.
NextRace ==
  \/ PostTestResult(TestResultIds, PublishBodies)
  \/ DeleteTestResult(TestResultIds)
  \/ \E h \in Handlers : PatchFind(TestResultIds, h)
  \/ \E h \in Handlers : PatchSave(h)

SpecRace == Init /\ [][NextRace]_vars

\* The save hook on documents whose elements carry a numeric score, any
\* maxScore (0, null and undefined included) and a percentage or none.
HookResultInputs ==
  {Result("s1", Num(sc), mx, pc) :
     sc \in {0, 2, 5}, mx \in {Num(0), Null, Undefined, Num(3)}, pc \in {Undefined, Num(40)}}

HookResultsInputs == UNION {[1..n -> HookResultInputs] : n \in 0..MaxResults}

\* The documents handed to the save hook.
SaveRequests ==
  {Request("save", 0, [group |-> "g1", results |-> rs, averageScore |-> <<0, 1>>,
                       totalStudents |-> 0, isPublished |-> FALSE]) :
     rs \in HookResultsInputs}

InitNormalizer ==
  /\ groups = {"g1"}
  /\ students = {"s1"}
  /\ testResults = <<>>
  /\ nextTestResultId = 1
  /\ achievements = <<>>
  /\ nextAchievementId = 1
  /\ graduates = <<>>
  /\ nextGraduateId = 1
  /\ req \in SaveRequests
  /\ resp = Response(0, "none", NoValue, 0)
  /\ toggleRun = NoRun
  /\ toggling = [h \in Handlers |-> Idle]
  /\ subjects = StartSubjects
  /\ groupFields = StartGroups(groups)
  /\ studentFields = StartStudents(students)
  /\ inflight = [h \in Handlers |-> Resting]

NextNormalizer == SaveHook

SpecNormalizer == InitNormalizer /\ [][NextNormalizer]_vars

\* The test-result endpoints that write, over several records.
StoreBodies ==
  PublishBodies \cup {TestResultBody("g2", "name", "date", TRUE, OneResult, Undefined)}

NextStore ==
  \/ PostTestResult(RecordIds, StoreBodies)
  \/ PutTestResult(RecordIds, StoreBodies)
  \/ PatchTestResult(RecordIds)
  \/ DeleteTestResult(RecordIds)

SpecStore == Init /\ [][NextStore]_vars

\* The list endpoints of test results and graduates.  Both groups exist at
\* the start.  A run fills and lists one of the two collections.
InitList ==
  /\ groups = GroupIds
  /\ students = {"s1"}
  /\ testResults = <<>>
  /\ nextTestResultId = 1
  /\ achievements = <<>>
  /\ nextAchievementId = 1
  /\ graduates = <<>>
  /\ nextGraduateId = 1
  /\ req = NoRequest
  /\ resp = Response(0, "none", NoValue, 0)
  /\ toggleRun = NoRun
  /\ toggling = [h \in Handlers |-> Idle]
  /\ subjects = StartSubjects
  /\ groupFields = StartGroups(groups)
  /\ studentFields = StartStudents(students)
  /\ inflight = [h \in Handlers |-> Resting]

ListBodies ==
  {TestResultBody(g, "name", "date", TRUE, OneResult, pub) :
     g \in GroupIds, pub \in {Undefined, Bool(TRUE)}}

\* page and limit of the list requests: omitted, or given.
ListPages ==
  {PageQuery(Undefined, Undefined)}
  \cup {PageQuery(Num(page), Num(limit)) : page \in 1..3, limit \in 1..2}

ListQueries ==
  {TestResultQuery(f[1], f[2], f[3], pg.page, pg.limit) :
     f \in {<<NoValue, NoValue, NoValue>>, <<"g1", NoValue, NoValue>>,
            <<NoValue, NoValue, "true">>, <<NoValue, NoValue, "false">>,
            <<"g1", NoValue, "true">>, <<NoValue, "sub1", NoValue>>,
            <<NoValue, "sub2", NoValue>>, <<"g1", "sub1", NoValue>>,
            <<NoValue, "sub1", "true">>},
     pg \in ListPages}

ListGraduateBodies ==
  {GraduateListBody("grant", FieldIT, NoValue),
   GraduateListBody("contract", FieldIT, "false"),
   GraduateListBody("grant", FieldLaw, NoValue)}

GraduateQueries ==
  {GraduateQuery(f[1], f[2], f[3], pg.page, pg.limit) :
     f \in {<<NoValue, NoValue, <<>> >>, <<"true", NoValue, <<>> >>, <<"false", NoValue, <<>> >>,
            <<NoValue, "grant", <<>> >>, <<NoValue, "contract", <<>> >>,
            <<NoValue, NoValue, <<"i", "t">> >>, <<NoValue, NoValue, <<"A", "W">> >>,
            <<NoValue, "grant", <<"i", "t">> >>},
     pg \in ListPages}

NextList ==
  \/ graduates = <<>> /\ PostTestResult(RecordIds, ListBodies)
  \/ graduates = <<>> /\ GetTestResults(ListQueries)
  \/ testResults = <<>> /\ PostGraduate(RecordIds, ListGraduateBodies)
  \/ testResults = <<>> /\ GetGraduates(GraduateQueries)

SpecList == InitList /\ [][NextList]_vars

\* Reads of test results while the groups and students they refer to are
\* deleted.
DanglingQueries ==
  {TestResultQuery(NoValue, NoValue, NoValue, Undefined, Undefined),
   TestResultQuery("g1", NoValue, NoValue, Undefined, Undefined),
   TestResultQuery(NoValue, NoValue, "true", Undefined, Undefined),
   TestResultQuery(NoValue, "sub1", NoValue, Undefined, Undefined),
   TestResultQuery(NoValue, "sub1", NoValue, Num(2), Num(1)),
   TestResultQuery("g2", "sub2", NoValue, Undefined, Undefined)}

NextDangling ==
  \/ PostTestResult(RecordIds, ListBodies)
  \/ GetTestResults(DanglingQueries)
  \/ GetTestResult(RecordIds)
  \/ DeleteGroup
  \/ DeleteStudent

SpecDangling == InitList /\ [][NextDangling]_vars

\* The pagination block, over counts, pages and limits.
InitPagination ==
  /\ groups = {"g1"}
  /\ students = {"s1"}
  /\ testResults = <<>>
  /\ nextTestResultId = 1
  /\ achievements = <<>>
  /\ nextAchievementId = 1
  /\ graduates = <<>>
  /\ nextGraduateId = 1
  /\ req \in PageRequests
  /\ resp = Response(0, "none", NoValue, 0)
  /\ toggleRun = NoRun
  /\ toggling = [h \in Handlers |-> Idle]
  /\ subjects = StartSubjects
  /\ groupFields = StartGroups(groups)
  /\ studentFields = StartStudents(students)
  /\ inflight = [h \in Handlers |-> Resting]

NextPagination == Paginate

SpecPagination == InitPagination /\ [][NextPagination]_vars


\* One submission at a time, step by step, next to deletes of groups and
\* students.  The results elements name an existing student, an unknown
\* one, or fail the field check.
SubmitResultInputs ==
  {Result("s1", Num(1), Undefined, Undefined),
   Result("s2", Num(1), Undefined, Undefined),
   Result("s2", Undefined, Undefined, Undefined)}

SubmitResultsInputs == UNION {[1..n -> SubmitResultInputs] : n \in 0..MaxResults}

SubmitBodies ==
  {TestResultBody("g1", "name", "date", TRUE, rs, Undefined) : rs \in SubmitResultsInputs}
  \cup {TestResultBody("g2", "name", "date", TRUE, <<Result("s1", Num(1), Undefined, Undefined)>>, Undefined),
        TestResultBody("g1", NoValue, "date", TRUE, <<>>, Undefined)}

Submitters == {1}

NextSubmit ==
  \/ \E h \in Submitters : SubmitStart(h, FirstTestResult, SubmitBodies)
  \/ \E h \in Submitters : SubmitGroup(h)
  \/ \E h \in Submitters : SubmitEntry(h)
  \/ \E h \in Submitters : SubmitWrite(h, FirstTestResult)
  \/ DeleteGroup
  \/ DeleteStudent

SpecSubmit == Init /\ [][NextSubmit]_vars

\* Two subject requests in flight together.
SubjectBodies ==
  {SubjectBody("Chemistry", "T"), SubjectBody(" Chemistry ", "T"),
   SubjectBody("Math", "T"), SubjectBody(NoValue, "T")}

SubjectRefs == {"sub1", "sub3"}

NextSubjects ==
  \/ \E h \in Handlers : SubjectFind(h, SubjectRefs, SubjectBodies)
  \/ \E h \in Handlers : SubjectWrite(h)

SpecSubjects == Init /\ [][NextSubjects]_vars

\* Two group requests in flight together.
GroupBodies ==
  {GroupBody(n, s) : n \in {"A", " B "}, s \in SubjectIds}
  \cup {GroupBody(NoValue, "sub1"), GroupBody("A", "sub3")}

GroupRefs == {"g1", "g3"}

NextGroups ==
  \/ \E h \in Handlers : GroupSubject(h, GroupRefs, GroupBodies)
  \/ \E h \in Handlers : GroupFind(h)
  \/ \E h \in Handlers : GroupWrite(h)

SpecGroups == Init /\ [][NextGroups]_vars

\* The student endpoints over two students, one in each group.
InitStudents ==
  /\ groups = GroupIds
  /\ students = StudentIds
  /\ testResults = <<>>
  /\ nextTestResultId = 1
  /\ achievements = <<>>
  /\ nextAchievementId = 1
  /\ graduates = <<>>
  /\ nextGraduateId = 1
  /\ req = NoRequest
  /\ resp = Response(0, "none", NoValue, 0)
  /\ toggleRun = NoRun
  /\ toggling = [h \in Handlers |-> Idle]
  /\ subjects = StartSubjects
  /\ groupFields = StartGroups(groups)
  /\ studentFields = [s \in StudentIds |->
       [firstName |-> "Ann", group |-> IF s = "s1" THEN "g1" ELSE "g2", isActive |-> TRUE]]
  /\ inflight = [h \in Handlers |-> Resting]

StudentBodies ==
  {StudentBody(fn, g, act) : fn \in {"Ann", "Bob"}, g \in GroupIds, act \in {NoValue, "true", "false"}}
  \cup {StudentBody(NoValue, "g1", NoValue), StudentBody("Ann", "g3", NoValue)}

StudentQueries ==
  {StudentQuery(g, pg.page, pg.limit) :
     g \in {NoValue, "g1"},
     pg \in {PageQuery(Undefined, Undefined), PageQuery(Num(1), Num(1)), PageQuery(Num(2), Num(1))}}

NextStudents ==
  \/ PutStudent(StudentIds, StudentBodies)
  \/ SoftDeleteStudent(StudentIds)
  \/ DeleteStudent
  \/ GetStudent(StudentIds)
  \/ GetStudents(StudentQueries)

SpecStudents == InitStudents /\ [][NextStudents]_vars

\* A store call that throws, over the endpoints and the errors.
InitFailure ==
  /\ groups = {"g1"}
  /\ students = {"s1"}
  /\ testResults = <<>>
  /\ nextTestResultId = 1
  /\ achievements = <<>>
  /\ nextAchievementId = 1
  /\ graduates = <<>>
  /\ nextGraduateId = 1
  /\ req \in FailingRequests
  /\ resp = Response(0, "none", NoValue, 0)
  /\ toggleRun = NoRun
  /\ toggling = [h \in Handlers |-> Idle]
  /\ subjects = StartSubjects
  /\ groupFields = StartGroups(groups)
  /\ studentFields = StartStudents(students)
  /\ inflight = [h \in Handlers |-> Resting]

NextFailure == CatchFailure

SpecFailure == InitFailure /\ [][NextFailure]_vars

\* The hard deletes, over a store in which subjects, groups, students, test
\* results and graduates refer to one another.
DeleteGraduateBodies == {GraduateBody(TRUE, TRUE, "g1", NoValue)}

NextDelete ==
  \/ PostTestResult(FirstTestResult, ListBodies)
  \/ PostGraduate(GraduateIds, DeleteGraduateBodies)
  \/ PostAchievement
  \/ DeleteSubject
  \/ DeleteGroup
  \/ DeleteStudent
  \/ DeleteTestResult(FirstTestResult)

SpecDelete == InitStudents /\ [][NextDelete]_vars

\* The lifecycle flags: isPublished of a test result, an achievement and a
\* graduate, isActive of a student, under create, update, toggle and soft
\* delete.
LifecycleStudents == {"s1"}

NextLifecycle ==
  \/ PostTestResult(FirstTestResult, PublishBodies)
  \/ PutTestResult(FirstTestResult, PublishBodies)
  \/ PatchTestResult(FirstTestResult)
  \/ PostAchievement
  \/ PutAchievement
  \/ PatchAchievement
  \/ PostGraduate(GraduateIds, GraduateBodies)
  \/ PutGraduate
  \/ PatchGraduate
  \/ PutStudent(LifecycleStudents, StudentBodies)
  \/ SoftDeleteStudent(LifecycleStudents)

SpecLifecycle == Init /\ [][NextLifecycle]_vars

\* The save hook run twice on a document: scores whose percentage rounds to
\* 0 or exceeds 100, maxScore 0, and a percentage absent, 0 or given.
ResaveResultInputs ==
  {Result("s1", Num(sc), Num(mx), pc) :
     sc \in {0, 1, 5}, mx \in {0, 3, 300}, pc \in {Undefined, Num(0), Num(40)}}

ResaveResultsInputs == UNION {[1..n -> ResaveResultInputs] : n \in 0..MaxResults}

ResaveRequests ==
  {Request("save", 0, [group |-> "g1", results |-> rs, averageScore |-> <<0, 1>>,
                       totalStudents |-> 0, isPublished |-> FALSE]) :
     rs \in ResaveResultsInputs}

InitResave ==
  /\ groups = {"g1"}
  /\ students = {"s1"}
  /\ testResults = <<>>
  /\ nextTestResultId = 1
  /\ achievements = <<>>
  /\ nextAchievementId = 1
  /\ graduates = <<>>
  /\ nextGraduateId = 1
  /\ req \in ResaveRequests
  /\ resp = Response(0, "none", NoValue, 0)
  /\ toggleRun = NoRun
  /\ toggling = [h \in Handlers |-> Idle]
  /\ subjects = StartSubjects
  /\ groupFields = StartGroups(groups)
  /\ studentFields = StartStudents(students)
  /\ inflight = [h \in Handlers |-> Resting]

NextResave ==
  \/ SaveHook
  \/ SaveAgain

SpecResave == InitResave /\ [][NextResave]_vars

(***************************************************************************)
(* Properties.                                                             *)
(***************************************************************************)
Created == req.op = "POST test-results" /\ resp.status = 201
Updated == req.op = "PUT test-results" /\ resp.status = 200

\* p is the quotient n / d rounded to the nearest integer, halves upwards.
IsRounded(p, n, d) == 2 * p * d <= 2 * n + d /\ 2 * n + d < 2 * (p + 1) * d

\* The divisor the normalizer is specified to use: maxScore, or 100.
Divisor(r) == IF IsNum(r.maxScore) /\ r.maxScore.v # 0 THEN r.maxScore.v ELSE 100

\* The percentage of a stored element: the stored one, else the derived one.
StoredPercentage(r) ==
  IF IsNum(r.percentage) THEN r.percentage.v
  ELSE CHOOSE p \in 0..10000 : IsRounded(p, r.score.v * 100, Divisor(r))

RECURSIVE SumOf(_, _)
SumOf(f(_), rs) == IF rs = <<>> THEN 0 ELSE f(Head(rs)) + SumOf(f, Tail(rs))

\* avg (a pair <<sum, count>>) is the mean of f over rs, and 0 for no element.
IsMean(avg, f(_), rs) ==
  IF rs = <<>> THEN avg[1] = 0
  ELSE avg[1] * Len(rs) = SumOf(f, rs) * avg[2]

\* C1 (as claimed): in every reachable state every stored TestResult has
\* totalStudents = number of results and averageScore = mean of the
\* percentages of its results (0 for none).
C1_AggregatesMatchResults ==
  \A id \in DOMAIN testResults :
    /\ testResults[id].totalStudents = Len(testResults[id].results)
    /\ IsMean(testResults[id].averageScore, StoredPercentage, testResults[id].results)

\* C2: after a successful create, every results element submitted with a
\* numeric score and maxScore and no percentage is stored with
\* percentage = round(score / maxScore * 100).
C2_CreateDerivesPercentage ==
  Created =>
    \A i \in DOMAIN req.body.results :
      LET r == req.body.results[i]
          stored == testResults[resp.id].results[i]
      IN (IsNum(r.score) /\ IsNum(r.maxScore) /\ r.percentage = Undefined) =>
           /\ IsNum(stored.percentage)
           /\ IsRounded(stored.percentage.v, r.score.v * 100, r.maxScore.v)

\* C2 witness: a created test result whose element 5/8 was stored with 63.
C2_Witness ==
  /\ Created
  /\ Len(req.body.results) = 1
  /\ req.body.results[1] = Result("s1", Num(5), Num(8), Undefined)
  /\ testResults[resp.id].results[1].percentage = Num(63)

\* C3 (as claimed): after a successful create, every results element
\* submitted with a percentage is stored with exactly that percentage.
C3_SuppliedPercentageKept ==
  Created =>
    \A i \in DOMAIN req.body.results :
      IsNum(req.body.results[i].percentage) =>
        testResults[resp.id].results[i].percentage = req.body.results[i].percentage

\* The percentage an element resolves to: the supplied one where given, the
\* derived one otherwise.
ResolvedPercentage(r) ==
  IF IsNum(r.percentage) THEN r.percentage.v
  ELSE CHOOSE p \in 0..10000 : IsRounded(p, r.score.v * 100, Divisor(r))

\* C4 (as claimed): after a successful create, averageScore is the mean of
\* the resolved percentages of the submitted elements and totalStudents
\* their number; both are 0 for an empty list.
C4_CreateAggregates ==
  Created =>
    /\ testResults[resp.id].totalStudents = Len(req.body.results)
    /\ IsMean(testResults[resp.id].averageScore, ResolvedPercentage, req.body.results)

\* C5 (as claimed): after a successful update, every element of the new
\* list that lacks a percentage is stored with
\* percentage = round(score / (maxScore or 100) * 100).
C5_UpdateDerivesPercentage ==
  Updated =>
    \A i \in DOMAIN req.body.results :
      LET r == req.body.results[i]
          stored == testResults[resp.id].results[i]
      IN r.percentage = Undefined =>
           /\ IsNum(stored.percentage)
           /\ IsRounded(stored.percentage.v, r.score.v * 100, Divisor(r))


PostStep == req'.op = "POST test-results"
PutStep == req'.op = "PUT test-results"

HasRequired(b) ==
  b.group # NoValue /\ b.testName # NoValue /\ b.testDate # NoValue /\ b.hasResults

StoreUnchanged == testResults' = testResults /\ nextTestResultId' = nextTestResultId

\* C6: a create request whose group id matches no stored group is answered
\* 400 and leaves the stored test results as they were; when the request
\* carries its required fields the message is 'Group not found'.
C6_UnknownGroupRejected ==
  [][(PostStep /\ req'.body.group # NoValue /\ req'.body.group \notin groups) =>
       /\ resp'.status = 400
       /\ StoreUnchanged
       /\ (HasRequired(req'.body) => resp'.message = GroupMsg)]_vars

\* C6 witness: 'Group not found' answered to a create while a test result
\* is stored.
C6_Witness ==
  /\ req.op = "POST test-results"
  /\ req.body.group = "g2"
  /\ resp.status = 400
  /\ resp.message = GroupMsg
  /\ DOMAIN testResults # {}

\* The positions of the results elements whose student id is not stored.
UnknownStudentAt(b, studs) ==
  {i \in DOMAIN b.results : b.results[i].student # NoValue /\ b.results[i].student \notin studs}

FirstOf(S) == CHOOSE i \in S : \A j \in S : i <= j

FieldsOk(r) == r.student # NoValue /\ r.score # Undefined /\ ~(IsNum(r.score) /\ r.score.v < 0)

\* C7: a create request with a results element whose student id is not
\* stored is answered 400 and stores nothing; when no earlier check fails
\* the message names the id of that student.
C7_UnknownStudentRejected ==
  [][(PostStep /\ UnknownStudentAt(req'.body, students) # {}) =>
       LET b == req'.body
           first == FirstOf(UnknownStudentAt(b, students))
       IN /\ resp'.status = 400
          /\ StoreUnchanged
          /\ (HasRequired(b) /\ b.group \in groups /\ (\A j \in 1..first : FieldsOk(b.results[j]))
                => resp'.message = StudentMsg /\ resp'.student = b.results[first].student)]_vars

\* C7 witness: a create whose first element validates and whose second names
\* an unknown student was answered with that student's id, nothing stored.
C7_Witness ==
  /\ req.op = "POST test-results"
  /\ Len(req.body.results) = 2
  /\ req.body.results[1].student = "s1"
  /\ req.body.results[2].student = "s2"
  /\ resp.message = StudentMsg
  /\ resp.student = "s2"
  /\ testResults = <<>>

\* A check of the referential validator fails on body b.
SomeCheckFails(b, grps, studs) ==
  \/ ~HasRequired(b)
  \/ b.group \notin grps
  \/ \E i \in DOMAIN b.results : ~FieldsOk(b.results[i]) \/ b.results[i].student \notin studs

\* C8: an update of an existing test result is answered as create's checks
\* answer the same body, and whenever a check fails (and whenever the
\* update is not answered 200) the stored test result is unchanged.
C8_UpdateChecksBeforeWrite ==
  [][(PutStep /\ req'.id \in DOMAIN testResults) =>
       LET b == req'.body
           create == PostChecks(b, groups, students)
       IN /\ SomeCheckFails(b, groups, students) => (resp'.status = 400 /\ resp' = create)
          /\ ~SomeCheckFails(b, groups, students) => (resp'.status # 400 /\ create.status = 200)
          /\ resp'.status # 200 => StoreUnchanged]_vars

\* C8 witness: an update of a stored test result rejected for an unknown
\* student.
C8_Witness ==
  /\ req.op = "PUT test-results"
  /\ req.id \in DOMAIN testResults
  /\ resp.status = 400
  /\ resp.message = StudentMsg

HasBadResult(b) ==
  \E i \in DOMAIN b.results :
    \/ b.results[i].student = NoValue
    \/ b.results[i].score = Undefined
    \/ (IsNum(b.results[i].score) /\ b.results[i].score.v < 0)

\* C9: a create or update with a results element that has no student, an
\* undefined score or a score below 0 is answered 400 and writes nothing; a
\* request is accepted only if every element has a student and a numeric
\* score >= 0.
C9_InvalidResultsRejected ==
  [][(PostStep \/ PutStep) =>
       /\ HasBadResult(req'.body) => (resp'.status = 400 /\ StoreUnchanged)
       /\ resp'.status \in {200, 201} =>
            \A i \in DOMAIN req'.body.results :
              /\ req'.body.results[i].student # NoValue
              /\ IsNum(req'.body.results[i].score)
              /\ req'.body.results[i].score.v >= 0]_vars

\* C9 witness: an update of a stored test result rejected for a negative
\* score in its second element.
C9_Witness ==
  /\ req.op = "PUT test-results"
  /\ req.id \in DOMAIN testResults
  /\ Len(req.body.results) = 2
  /\ req.body.results[1].score = Num(2)
  /\ req.body.results[2].score = Num(-1)
  /\ resp.status = 400
  /\ resp.message = ResultMsg

\* isPublished of the record the last request addressed.
ToggledPublished ==
  CASE req.op = "PATCH test-results" -> testResults[req.id].isPublished
    [] req.op = "PATCH achievements" -> achievements[req.id].isPublished
    [] req.op = "PATCH graduates" -> graduates[req.id].isPublished

\* C10: isPublished is always true or false; after one toggle the record
\* holds the negation of what it held before, and after two successive
\* toggles of the same record what it held before the first.
C10_ToggleFlips ==
  /\ \A id \in DOMAIN testResults : testResults[id].isPublished \in BOOLEAN
  /\ \A id \in DOMAIN achievements : achievements[id].isPublished \in BOOLEAN
  /\ \A id \in DOMAIN graduates : graduates[id].isPublished \in BOOLEAN
  /\ toggleRun.n = 1 => ToggledPublished = ~toggleRun.original
  /\ toggleRun.n = 2 => ToggledPublished = toggleRun.original

\* C10 witness: a test result toggled twice in succession.
C10_Witness ==
  /\ req.op = "PATCH test-results"
  /\ toggleRun.n = 2
  /\ testResults[req.id].isPublished = toggleRun.original

\* C11: when two toggles of one record both read it before either saves,
\* neither save is rejected, both write the same flipped value, and after
\* the second save the record holds the negation of what both read: it is
\* flipped once, the last write wins.
C11_RacingTogglesFlipOnce ==
  [][\A h \in Handlers :
       (toggling[h].pc = "found" /\ toggling'[h].pc = "done"
          /\ toggling[h].id \in DOMAIN testResults) =>
         LET id == toggling[h].id
             read == toggling[h].doc
         IN /\ toggling'[h].status = 200
            /\ testResults'[id].isPublished = ~read.isPublished
            /\ (toggling[h].raced /\ toggling[h].writesSince = 1) =>
                  testResults[id].isPublished = ~read.isPublished]_vars

\* C11 witness: handler 2 saved after handler 1 had saved, both having read
\* the record in the same state; the record is flipped once.
C11_Witness ==
  /\ toggling[2].pc = "done"
  /\ toggling[2].status = 200
  /\ toggling[2].raced
  /\ toggling[2].writesSince = 1
  /\ toggling[1].pc = "done"
  /\ toggling[1].status = 200
  /\ toggling[1].id = toggling[2].id
  /\ toggling[2].id \in DOMAIN testResults
  /\ testResults[toggling[2].id].isPublished = ~toggling[2].doc.isPublished

\* C12: a record created without an isPublished value is stored in its
\* entity's default publication state: a TestResult with isPublished = FALSE,
\* an Achievement and a Graduate with isPublished = TRUE.
C12_CreationDefaults ==
  /\ (Created /\ req.body.isPublished = Undefined) =>
        testResults[resp.id].isPublished = FALSE
  /\ (req.op = "POST achievements" /\ resp.status = 201 /\ req.body.isPublished = NoValue) =>
        achievements[resp.id].isPublished = TRUE
  /\ (req.op = "POST graduates" /\ resp.status = 201 /\ req.body.isPublished = NoValue) =>
        graduates[resp.id].isPublished = TRUE

\* C12 witness: a graduate created without isPublished is stored published,
\* next to a stored draft test result and a stored achievement.
C12_Witness ==
  /\ req.op = "POST graduates"
  /\ resp.status = 201
  /\ req.body.isPublished = NoValue
  /\ graduates[resp.id].isPublished = TRUE
  /\ \E id \in DOMAIN testResults : testResults[id].isPublished = FALSE
  /\ \E id \in DOMAIN achievements : achievements[id].isPublished = TRUE

\* c is the least integer with n <= c * d.
IsCeil(c, n, d) == (c - 1) * d < n /\ n <= c * d

\* C13: for every list endpoint, total >= 0, limit >= 1 and page >= 1 the
\* pagination block is currentPage = page, totalItems = total,
\* itemsPerPage = limit, totalPages = ceil(total / limit),
\* hasNextPage = (page < totalPages), hasPrevPage = (page > 1), with page 1
\* and limit 10 when omitted.
C13_PaginationBlock ==
  (req.op \in ListEndpoints /\ resp.status # 0) =>
    LET total == req.id
        page == IF req.body.page = Undefined THEN 1 ELSE req.body.page.v
        limit == IF req.body.limit = Undefined THEN 10 ELSE req.body.limit.v
        block == resp.pagination
    IN /\ resp.status = 200
       /\ block.currentPage = page
       /\ block.totalItems = total
       /\ block.itemsPerPage = limit
       /\ IsCeil(block.totalPages, total, limit)
       /\ block.hasNextPage = (page < block.totalPages)
       /\ block.hasPrevPage = (page > 1)

\* C13 witness: total 25, limit omitted, page 3 gives 3 pages, no next page
\* and a previous page.
C13_Witness ==
  /\ req.op = "GET graduates: pagination"
  /\ req.id = 25
  /\ req.body = PageQuery(Num(3), Undefined)
  /\ resp.status = 200
  /\ resp.pagination.totalPages = 3
  /\ resp.pagination.itemsPerPage = 10
  /\ ~resp.pagination.hasNextPage
  /\ resp.pagination.hasPrevPage

\* page and limit of a list request, with their defaults.
AskedPage(q) == IF q.page = Undefined THEN 1 ELSE q.page.v
AskedLimit(q) == IF q.limit = Undefined THEN 10 ELSE q.limit.v

\* ids is the page of the request q cut from the set M of ids, latest first:
\* position i holds the member of M that has skip + i - 1 later members.
IsPageOf(ids, M, q) ==
  LET skip == (AskedPage(q) - 1) * AskedLimit(q)
      rest == IF Cardinality(M) > skip THEN Cardinality(M) - skip ELSE 0
  IN /\ Len(ids) = IF AskedLimit(q) < rest THEN AskedLimit(q) ELSE rest
     /\ \A i \in DOMAIN ids :
          /\ ids[i] \in M
          /\ Cardinality({m \in M : m > ids[i]}) = skip + i - 1

\* The stored test results a request's direct filters select.
SelectedTestResults(q) ==
  {id \in DOMAIN testResults :
     /\ (q.groupId # NoValue => testResults[id].group = q.groupId)
     /\ (q.published = "true" => testResults[id].isPublished)
     /\ (q.published = "false" => ~testResults[id].isPublished)}

\* The stored graduates a request's filters select.
SelectedGraduates(q) ==
  {id \in DOMAIN graduates :
     /\ (q.published = "true" => graduates[id].isPublished)
     /\ (q.published = "false" => ~graduates[id].isPublished)
     /\ (q.admissionType # NoValue => graduates[id].admissionType = q.admissionType)
     /\ (q.field # <<>> => FieldMatches(graduates[id].field, q.field))}

SelectedOfSubject(q) ==
  {id \in SelectedTestResults(q) :
     testResults[id].group \in groups /\ SubjectOf(testResults[id].group) = q.subjectId}

\* C15 (as claimed): a list request with subjectId reports as totalItems the
\* number of all stored test results whose group belongs to the subject.
C15_SubjectTotal ==
  (req.op = "GET test-results" /\ req.body.subjectId # NoValue /\ resp.status = 200) =>
    resp.pagination.totalItems = Cardinality(SelectedOfSubject(req.body))

\* C16 (as claimed): a list request with subjectId is answered with the
\* page-th run of `limit` test results of the subject, latest first, and
\* reports the pages that hold them all.
C16_SubjectPages ==
  (req.op = "GET test-results" /\ req.body.subjectId # NoValue /\ resp.status = 200) =>
    /\ IsPageOf([i \in DOMAIN resp.data |-> resp.data[i].id], SelectedOfSubject(req.body), req.body)
    /\ resp.pagination.totalPages * AskedLimit(req.body) >= Cardinality(SelectedOfSubject(req.body))

\* C17 (as claimed): a list request and a get by id of a stored test result
\* are answered 200 whatever groups and students have been deleted; a
\* reference that no longer resolves is shown as null.
C17_ReadsTolerateDangling ==
  /\ req.op = "GET test-results" => resp.status = 200
  /\ (req.op = "GET test-results/:id" /\ req.id \in DOMAIN testResults) =>
        /\ resp.status = 200
        /\ (testResults[req.id].group \notin groups => resp.data.group = NullRef)

\* C18 (as claimed): in every reachable state every stored percentage and
\* every averageScore of a stored test result lies within 0..100.
C18_PercentagesInRange ==
  \A id \in DOMAIN testResults :
    /\ \A i \in DOMAIN testResults[id].results :
         IsNum(testResults[id].results[i].percentage) =>
           /\ testResults[id].results[i].percentage.v >= 0
           /\ testResults[id].results[i].percentage.v <= 100
    /\ testResults[id].averageScore[1] >= 0
    /\ testResults[id].averageScore[1] <= 100 * testResults[id].averageScore[2]

\* The element reaches the save hook with maxScore 0 or absent and with no
\* percentage.
NoDivisor(r) == r.percentage = Undefined /\ r.maxScore \in {Num(0), Null, Undefined}

\* What an element adds to the sum behind averageScore: score / 100 * 100
\* rounded for an element without divisor, its percentage otherwise.
Contribution(r) ==
  IF NoDivisor(r) THEN CHOOSE p \in 0..10000 : IsRounded(p, r.score.v * 100, 100)
  ELSE IF IsNum(r.percentage) THEN r.percentage.v
  ELSE CHOOSE p \in 0..10000 : IsRounded(p, r.score.v * 100, r.maxScore.v)

\* C19: the save hook divides by 100 for an element whose maxScore is 0 or
\* absent and that has no percentage: the element adds round(score/100*100)
\* to the sum, and averageScore is a quotient with a divisor above 0.
C19_NoDivisionByZero ==
  (req.op = "save" /\ resp.status = 200) =>
    /\ resp.doc.averageScore[2] > 0
    /\ IsMean(resp.doc.averageScore, Contribution, req.body.results)

\* C19 witness: an element of score 5 and maxScore 0 next to one of 2 out of
\* 3 gives the average (5 + 67) / 2.
C19_Witness ==
  /\ req.op = "save"
  /\ resp.status = 200
  /\ Len(req.body.results) = 2
  /\ req.body.results[1] = Result("s1", Num(5), Num(0), Undefined)
  /\ req.body.results[2] = Result("s1", Num(2), Num(3), Undefined)
  /\ resp.doc.averageScore = <<72, 2>>

\* C20: PUT with a body that passes the checks, PATCH publish and DELETE on
\* an id that is not stored are answered 404 and leave every stored test
\* result, and the set of stored ids, as they were.
C20_AbsentIdNotFound ==
  [][(/\ req'.op \in {"PUT test-results", "PATCH test-results", "DELETE test-results"}
      /\ req'.id \notin DOMAIN testResults
      /\ (req'.op = "PUT test-results" => ~SomeCheckFails(req'.body, groups, students))) =>
       /\ resp'.status = 404
       /\ StoreUnchanged]_vars

\* C20 witness: an update of an id that is not stored answered 404 while
\* another test result is stored.
C20_Witness ==
  /\ req.op = "PUT test-results"
  /\ req.id \notin DOMAIN testResults
  /\ resp.status = 404
  /\ DOMAIN testResults # {}

\* The handlers that carry a test-result submission.
Submitting == {h \in Handlers : inflight[h].op \in {"POST test-results", "PUT test-results"}}

\* The k-th lookup a submission makes when no check fails: the group, then
\* the students of the results elements in list order.
ExpectedLookup(b, k) ==
  IF k = 1 THEN [kind |-> "Group", id |-> b.group]
  ELSE [kind |-> "Student", id |-> b.results[k - 1].student]

\* C21: the lookups of a submission are the group and then the students of
\* the results elements in list order, an element being looked up only once
\* its own field check and every earlier check have passed; a lookup that
\* finds nothing is the last one and answers 400; a 400 for an unknown
\* student names the student of the element looked up last, which is the
\* first element whose student was not found; a 400 for a malformed element
\* comes from the element after the last one looked up.
C21_ValidationOrder ==
  \A h \in Submitting :
    LET x == inflight[h]
        b == x.body
        L == x.lookups
        n == Len(x.lookups)
    IN /\ \A k \in 1..n :
            /\ [kind |-> L[k].kind, id |-> L[k].id] = ExpectedLookup(b, k)
            /\ k < n => L[k].found
            /\ k > 1 => ~BadResultOf(x.op, b.results[k - 1])
       /\ (n > 0 /\ ~L[n].found) => (x.pc = "done" /\ x.resp.status = 400)
       /\ (x.pc = "done" /\ x.resp.message = GroupMsg) => (n = 1 /\ ~L[1].found)
       /\ (x.pc = "done" /\ x.resp.message = StudentMsg) =>
            /\ n > 1
            /\ ~L[n].found
            /\ x.resp.student = b.results[n - 1].student
       /\ (x.pc = "done" /\ x.resp.message = ResultMsg) =>
            /\ n >= 1
            /\ n <= Len(b.results)
            /\ BadResultOf(x.op, b.results[n])
       /\ (x.pc = "write" \/ (x.pc = "done" /\ x.resp.status \in {200, 201, 404, 500})) =>
            /\ n = 1 + Len(b.results)
            /\ \A k \in 1..n : L[k].found

\* C21 witness: a submission of two elements was refused for the student of
\* its second element after the group and the first student had been found,
\* and the second element names another student than the first.
C21_Witness ==
  \E h \in Submitting :
    LET x == inflight[h]
    IN /\ x.pc = "done"
       /\ x.resp.message = StudentMsg
       /\ Len(x.body.results) = 2
       /\ Len(x.lookups) = 3
       /\ x.body.results[1].student # x.body.results[2].student
       /\ x.resp.student = x.body.results[2].student

\* C22: no two stored subjects have the same name (names are stored trimmed).
C22_SubjectNamesUnique ==
  \A a \in DOMAIN subjects, b \in DOMAIN subjects :
    a # b => subjects[a].name # subjects[b].name

\* The handlers that carry a group request.
GroupWriters == {h \in Handlers : inflight[h].op \in {"POST groups", "PUT groups"}}

\* Another stored group has the pair the request of x asks for.
PairStoredElsewhere(x) ==
  \E g \in groups :
    /\ g # x.ref
    /\ groupFields[g].name = TrimName(x.body.name)
    /\ groupFields[g].subject = x.body.subject

GroupPairsUnique ==
  \A a \in groups, b \in groups :
    a # b => <<groupFields[a].name, groupFields[a].subject>> # <<groupFields[b].name, groupFields[b].subject>>

\* C23: no two stored groups have the same (name, subject) pair, and a
\* handler that answers while another stored group has the pair its request
\* asks for answers with an error (400, 404 or 500) and leaves the groups as
\* they were.
C23_GroupPairsUnique ==
  /\ []GroupPairsUnique
  /\ [][\A h \in Handlers :
          (/\ inflight'[h].op \in {"POST groups", "PUT groups"}
           /\ inflight'[h] # inflight[h]
           /\ inflight'[h].pc = "done"
           /\ PairStoredElsewhere(inflight'[h]))
          => (/\ inflight'[h].resp.status \in {400, 404, 500}
              /\ groupFields' = groupFields
              /\ groups' = groups)]_vars

\* C23 witness: two stored groups, and a request that had passed the
\* handler's own findOne was refused by the store at its write.
C23_Witness ==
  /\ Cardinality(groups) = 2
  /\ \E h \in GroupWriters :
       /\ inflight[h].pc = "done"
       /\ inflight[h].resp.status = 500
       /\ PairStoredElsewhere(inflight[h])

\* The students a list response carries.
ListedStudents == {resp.data[i] : i \in DOMAIN resp.data}

\* C24: a soft delete of a stored student answers 200 and changes nothing
\* but isActive of that student, which is false afterwards; get-by-id
\* answers 200 with the stored document whatever isActive holds; a list
\* response carries stored, active students only; and the set of stored
\* students changes only by a permanent delete, which removes the student
\* it names.
C24_SoftDelete ==
  /\ [][(req'.op = "DELETE students/:id" /\ req'.body.student \in students)
          => (/\ resp'.status = 200
              /\ students' = students
              /\ studentFields' = [studentFields EXCEPT ![req'.body.student].isActive = FALSE])]_vars
  /\ [](req.op = "GET students/:id" /\ req.body.student \in students
          => (resp.status = 200 /\ resp.data = studentFields[req.body.student]))
  /\ [](req.op = "GET students"
          => \A st \in ListedStudents : st \in students /\ studentFields[st].isActive)
  /\ [][students' # students
          => (/\ req'.op = "DELETE students"
              /\ resp'.status = 200
              /\ students' = students \ {req'.body.student})]_vars

\* C24 witness: a soft-deleted student is stored, inactive, with the group
\* it had, and the list of all students has just been answered without it.
C24_Witness ==
  /\ req.op = "GET students"
  /\ req.body.body.groupId = NoValue
  /\ req.body.body.page = Undefined
  /\ "s1" \in students
  /\ ~studentFields["s1"].isActive
  /\ "s1" \notin ListedStudents
  /\ "s2" \in ListedStudents

\* The store could not be reached, or the operation timed out.
StoreUnavailable(name) ==
  name \in {"MongoTimeoutError", "MongoServerSelectionError", "MongoNetworkError"}

\* C25: on every endpoint of the three routers, a store call that throws
\* because the store is unreachable or timed out is answered 503, and a
\* store call that throws for another reason is answered 500.
C25_UnavailableIs503 ==
  (req.op = "store call throws" /\ resp.status # 0) =>
    resp.status = IF StoreUnavailable(req.body.error) THEN 503 ELSE 500

\* What a delete of one collection leaves alone.
SubjectsSame == subjects' = subjects

GroupsSame == groups' = groups /\ groupFields' = groupFields

StudentsSame == students' = students /\ studentFields' = studentFields

TestResultsSame == testResults' = testResults

PublishablesSame == achievements' = achievements /\ graduates' = graduates

\* C26: a hard delete of a stored subject, group, student or test result
\* answers 200 and removes that one record; every other record of every
\* collection is the same afterwards, those that refer to the deleted record
\* included.
C26_DeleteRemovesOneRecord ==
  [][/\ (req'.op = "DELETE subjects" /\ req'.body.subject \in DOMAIN subjects) =>
          /\ resp'.status = 200
          /\ subjects' = Remove(subjects, req'.body.subject)
          /\ GroupsSame /\ StudentsSame /\ TestResultsSame /\ PublishablesSame
     /\ (req'.op = "DELETE groups" /\ req'.body.group \in groups) =>
          /\ resp'.status = 200
          /\ groups' = groups \ {req'.body.group}
          /\ groupFields' = Remove(groupFields, req'.body.group)
          /\ SubjectsSame /\ StudentsSame /\ TestResultsSame /\ PublishablesSame
     /\ (req'.op = "DELETE students" /\ req'.body.student \in students) =>
          /\ resp'.status = 200
          /\ students' = students \ {req'.body.student}
          /\ studentFields' = Remove(studentFields, req'.body.student)
          /\ SubjectsSame /\ GroupsSame /\ TestResultsSame /\ PublishablesSame
     /\ (req'.op = "DELETE test-results" /\ req'.id \in DOMAIN testResults) =>
          /\ resp'.status = 200
          /\ testResults' = Remove(testResults, req'.id)
          /\ SubjectsSame /\ GroupsSame /\ StudentsSame /\ PublishablesSame]_vars

\* C26 witness: a group has just been deleted, and a student, a test result
\* and a graduate that refer to it are stored with its identifier, as is a
\* group whose subject has been deleted.
C26_Witness ==
  /\ req.op = "DELETE groups"
  /\ resp.status = 200
  /\ req.body.group \notin groups
  /\ \E st \in students : studentFields[st].group = req.body.group
  /\ \E id \in DOMAIN testResults : testResults[id].group = req.body.group
  /\ \E id \in DOMAIN graduates : graduates[id].previousGroup = req.body.group
  /\ \E g \in groups : groupFields[g].subject \notin DOMAIN subjects

\* C27: a publish toggle of a stored test result leaves its results (every
\* percentage included), its averageScore and its totalStudents as they were.
C27_ToggleKeepsScores ==
  [][(req'.op = "PATCH test-results" /\ req'.id \in DOMAIN testResults) =>
       /\ resp'.status = 200
       /\ testResults'[req'.id].results = testResults[req'.id].results
       /\ SameAverage(testResults'[req'.id].averageScore, testResults[req'.id].averageScore)
       /\ testResults'[req'.id].totalStudents = testResults[req'.id].totalStudents]_vars

\* C28: a PUT answered 200 whose body carries no isPublished leaves
\* isPublished of the test result, achievement or graduate it updates as it
\* was, and a PUT answered 200 whose body carries no isActive leaves isActive
\* of the student as it was.
C28_UpdateKeepsFlag ==
  [][/\ (req'.op = "PUT test-results" /\ resp'.status = 200 /\ req'.body.isPublished = Undefined) =>
          testResults'[req'.id].isPublished = testResults[req'.id].isPublished
     /\ (req'.op = "PUT achievements" /\ resp'.status = 200 /\ req'.body.isPublished = NoValue) =>
          achievements'[req'.id].isPublished = achievements[req'.id].isPublished
     /\ (req'.op = "PUT graduates" /\ resp'.status = 200 /\ req'.body.isPublished = NoValue) =>
          graduates'[req'.id].isPublished = graduates[req'.id].isPublished
     /\ (req'.op = "PUT students" /\ resp'.status = 200 /\ req'.body.body.isActive = NoValue) =>
          studentFields'[req'.body.student].isActive = studentFields[req'.body.student].isActive]_vars

\* The step in which handler h of a submission writes its test result.
WritesTestResult(h) ==
  /\ inflight[h].pc = "write"
  /\ inflight'[h].pc = "done"
  /\ inflight'[h].resp.status \in {200, 201}

\* C29: when a submission writes its test result, the group and every
\* student the body names are stored.
C29_ReferencesExistAtWrite ==
  [][\A h \in Handlers :
       WritesTestResult(h) =>
         /\ inflight[h].body.group \in groups
         /\ \A k \in DOMAIN inflight[h].body.results :
              inflight[h].body.results[k].student \in students]_vars

\* C30: the save hook run on a document it has already been through leaves
\* every results element (its percentage included), averageScore and
\* totalStudents as the first run set them.
C30_HookIdempotent ==
  (req.op = "save" /\ resp.status = 200 /\ "again" \in DOMAIN resp) =>
    /\ resp.again.results = resp.doc.results
    /\ SameAverage(resp.again.averageScore, resp.doc.averageScore)
    /\ resp.again.totalStudents = resp.doc.totalStudents

\* C30 witness: the hook has run twice on two elements; the first run filled
\* 167 into one and 0 into the other (which the second run computes again),
\* and the average is (167 + 0) / 2 after both runs.
C30_Witness ==
  /\ req.op = "save"
  /\ resp.status = 200
  /\ "again" \in DOMAIN resp
  /\ req.body.results = <<Result("s1", Num(5), Num(3), Undefined), Result("s1", Num(1), Num(300), Undefined)>>
  /\ resp.doc.results[1].percentage = Num(167)
  /\ resp.doc.results[2].percentage = Num(0)
  /\ resp.again.averageScore = <<167, 2>>
  /\ resp.again.totalStudents = 2

====
